---- MODULE Spec2Model ----
(***************************************************************************)
(* A model of the PVsyst report parser (src/pvsyst_parser.py): the range   *)
(* expanders, extract_orientations, the array-block loop, the endpoint     *)
(* expansion, MPPT renumbering, table fallback and orientation back-fill   *)
(* of parse_arrays_from_text, _collect_inverter_types, the per-inverter    *)
(* capacity, module and monthly apportionment, and the per-endpoint        *)
(* allocation and the result dictionary of to_dict.                        *)
(*                                                                         *)
(* Text is modelled as a sequence of tokens, one token per maximal run of  *)
(* digits (a number), per keyword (INV, MPPT, Modules) and per separator   *)
(* character; the regular expressions of the source are translated to      *)
(* leftmost searches over these tokens.  An inverter id "INV07" is the     *)
(* number 7 (the source formats it with two digits), an MPPT label         *)
(* "MPPT 3" is the number 3, and Python's None is NoVal.  Strings are      *)
(* compared as Python compares them, by the decimal digits of the number.  *)
(*                                                                         *)
(* The documents of the model write array ids without leading zeros (the   *)
(* source keys arrays by the id's text) and inverter numbers without a     *)
(* letter prefix, and an array block is given by its header line and by    *)
(* what each regular expression of _parse_array_block finds in its body.   *)
(* A session parses one document: extract_orientations, then              *)
(* parse_arrays_from_text, _collect_inverter_types,                        *)
(* calculate_monthly_production and to_dict, as parse_pdf and app.py call  *)
(* them.  SpecTwice runs a second session, on a new parser object, over    *)
(* the same document, as app.py does for each request; SpecRerun runs the  *)
(* second session on the same parser object.  In interactive mode a block  *)
(* carries the lists the user typed for its inverters and MPPTs.           *)
(*                                                                         *)
(* SpecRange applies parse_inverter_range and parse_mppt_range to a text,  *)
(* SpecSections applies identify_sections and extract_section_contents to  *)
(* a page of section markers and words, and SpecEquipment applies          *)
(* extract_equipment_info to the lines of an equipment table.              *)
(***************************************************************************)
EXTENDS Integers, Sequences, FiniteSets, TLC

VARIABLES
    rin,                    \* the text handed to a function of the text alone
    rout,                   \* what it returned
    rpc,                    \* which function ran
    doc,                    \* the matches of array_pattern, in text order
    glob,                   \* what the rest of the document states
    tables,                 \* self.tables, as the table provider filled it
    pc,                     \* the position of the session in the pipeline
    bi,                     \* the index of the next array block
    arrays,                 \* arrays of parse_arrays_from_text, in insertion order
    seen_ids,
    pending_inverter_type,
    expanded_arrays,        \* self.expanded_arrays
    self_arrays,            \* self.arrays
    orientations,           \* self.orientations
    tables_consulted,       \* parse_arrays_from_tables has been called
    table_arrays,           \* the rows it stored in self.arrays
    inverter_types,         \* self.inverter_types
    inverter_capacities,    \* self.inverter_capacities
    inverter_modules,
    capacity_shares,        \* every term added to total_capacity
    monthly_production,     \* self.monthly_production
    mppt_allocation,
    associations,           \* self.associations
    output,                 \* what to_dict returned
    run,                    \* the number of the session
    first_output            \* what the session before this one produced

rangeVars == <<rin, rout, rpc>>

inputVars == <<doc, glob, tables>>

parseVars == <<inputVars, pc, bi, arrays, seen_ids, pending_inverter_type,
               expanded_arrays, self_arrays, orientations,
               tables_consulted, table_arrays, inverter_types>>

allocVars == <<inverter_capacities, inverter_modules, capacity_shares,
               monthly_production, mppt_allocation, associations, output>>

sessionVars == <<run, first_output>>

vars == <<rangeVars, parseVars, allocVars, sessionVars>>

-----------------------------------------------------------------------------
(* Tokens *)

N(n) == [k |-> "num", v |-> n]

INV == [k |-> "inv", v |-> 0]

MPPT == [k |-> "mppt", v |-> 0]

DASH == [k |-> "dash", v |-> 0]

COMMA == [k |-> "comma", v |-> 0]

SP == [k |-> "sp", v |-> 0]

HASH == [k |-> "hash", v |-> 0]

WORD == [k |-> "word", v |-> 0]

MOD == [k |-> "mod", v |-> 0]

NoVal == -1

IsNum(s, i) == i <= Len(s) /\ s[i].k = "num"

IsKind(s, i, kind) == i <= Len(s) /\ s[i].k = kind

\* \s* : the first position at or after i that holds no space
RECURSIVE SkipSp(_, _)
SkipSp(s, i) ==
    IF i <= Len(s) /\ s[i].k = "sp" THEN SkipSp(s, i + 1) ELSE i

\* str.strip()
RECURSIVE Strip(_)
Strip(s) ==
    IF s = <<>> THEN s
    ELSE IF s[1].k = "sp" THEN Strip(Tail(s))
    ELSE IF s[Len(s)].k = "sp" THEN Strip(SubSeq(s, 1, Len(s) - 1))
    ELSE s

\* str.split(","): always at least one part
RECURSIVE SplitComma(_)
SplitComma(s) ==
    IF \A i \in 1..Len(s) : s[i].k # "comma" THEN <<s>>
    ELSE LET c == CHOOSE i \in 1..Len(s) :
                      /\ s[i].k = "comma"
                      /\ \A j \in 1..(i - 1) : s[j].k # "comma"
         IN  <<SubSeq(s, 1, c - 1)>> \o SplitComma(SubSeq(s, c + 1, Len(s)))

\* "-" in part
HasDash(s) == \E i \in 1..Len(s) : s[i].k = "dash"

\* range(start, end + 1)
PyRange(a, b) == IF b >= a THEN [i \in 1..(b - a + 1) |-> a + i - 1] ELSE <<>>

\* the leftmost position satisfying P, or 0
FirstPos(s, P(_, _)) ==
    IF \E i \in 1..Len(s) : P(s, i)
    THEN CHOOSE i \in 1..Len(s) : P(s, i) /\ \A j \in 1..(i - 1) : ~P(s, j)
    ELSE 0

\* (\d+)\s*-\s*(\d+) matched at position i
NumRangeAt(s, i) ==
    /\ IsNum(s, i)
    /\ IsKind(s, SkipSp(s, i + 1), "dash")
    /\ IsNum(s, SkipSp(s, SkipSp(s, i + 1) + 1))

NumRangeEnd(s, i) == s[SkipSp(s, SkipSp(s, i + 1) + 1)].v

\* INV\s*(\d+) matched at position i
InvSingleAt(s, i) == IsKind(s, i, "inv") /\ IsNum(s, SkipSp(s, i + 1))

\* INV\s*(\d+)\s*-\s*(\d+) matched at position i
InvRangeAt(s, i) == IsKind(s, i, "inv") /\ NumRangeAt(s, SkipSp(s, i + 1))

\* (\d+) matched at position i
NumAt(s, i) == IsNum(s, i)

-----------------------------------------------------------------------------
(* parse_inverter_range and parse_mppt_range *)

\* inverter_part where a part without "-" is read as a bare number only: a
\* part that starts with INV gives nothing
inverter_part_bare_numbers_only(part) ==
    IF HasDash(part)
    THEN LET i == FirstPos(part, InvRangeAt)
         IN  IF i # 0
             THEN PyRange(part[SkipSp(part, i + 1)].v,
                          NumRangeEnd(part, SkipSp(part, i + 1)))
             ELSE <<>>
    ELSE LET i == FirstPos(part, InvSingleAt)
             j == FirstPos(part, NumAt)
         IN  IF i # 0 THEN <<>>
             ELSE IF j # 0 THEN <<part[j].v>>
             ELSE <<>>

\* one iteration of the loop over parts in parse_inverter_range
inverter_part(part) ==
    IF HasDash(part)
    THEN LET i == FirstPos(part, InvRangeAt)
         IN  IF i # 0
             THEN PyRange(part[SkipSp(part, i + 1)].v,
                          NumRangeEnd(part, SkipSp(part, i + 1)))
             ELSE <<>>
    ELSE LET i == FirstPos(part, InvSingleAt)
             j == FirstPos(part, NumAt)
         IN  IF i # 0 THEN <<part[SkipSp(part, i + 1)].v>>
             ELSE IF j # 0 THEN <<part[j].v>>
             ELSE <<>>

\* mppt_part with range(start, end) in place of range(start, end + 1)
mppt_part_exclusive_end(part) ==
    IF HasDash(part)
    THEN LET i == FirstPos(part, NumRangeAt)
         IN  IF i # 0 THEN PyRange(part[i].v, NumRangeEnd(part, i) - 1) ELSE <<>>
    ELSE LET j == FirstPos(part, NumAt)
         IN  IF j # 0 THEN <<part[j].v>> ELSE <<>>

\* one iteration of the loop over parts in parse_mppt_range
mppt_part(part) ==
    IF HasDash(part)
    THEN LET i == FirstPos(part, NumRangeAt)
         IN  IF i # 0 THEN PyRange(part[i].v, NumRangeEnd(part, i)) ELSE <<>>
    ELSE LET j == FirstPos(part, NumAt)
         IN  IF j # 0 THEN <<part[j].v>> ELSE <<>>

\* list.append / list.extend over the parts, in order
RECURSIVE Flatten(_)
Flatten(seqs) ==
    IF seqs = <<>> THEN <<>> ELSE Head(seqs) \o Flatten(Tail(seqs))

StripParts(s) == [i \in 1..Len(SplitComma(s)) |-> Strip(SplitComma(s)[i])]

parse_inverter_range(inv_text) ==
    LET parts == StripParts(Strip(inv_text))
    IN  Flatten([i \in 1..Len(parts) |-> inverter_part(parts[i])])

\* re.sub(r"^MPPT\s*", "", text)
StripMpptPrefix(s) ==
    IF IsKind(s, 1, "mppt") THEN SubSeq(s, SkipSp(s, 2), Len(s)) ELSE s

parse_mppt_range(mppt_text) ==
    LET parts == StripParts(StripMpptPrefix(Strip(mppt_text)))
    IN  Flatten([i \in 1..Len(parts) |-> mppt_part(parts[i])])

-----------------------------------------------------------------------------
(* Strings as Python orders them *)

RECURSIVE Digits(_)
Digits(n) == IF n < 10 THEN <<n>> ELSE Digits(n \div 10) \o <<n % 10>>

RECURSIVE LexLess(_, _)
LexLess(a, b) ==
    IF a = <<>> THEN b # <<>>
    ELSE IF b = <<>> THEN FALSE
    ELSE IF a[1] # b[1] THEN a[1] < b[1]
    ELSE LexLess(Tail(a), Tail(b))

\* f"INV{n:02d}"
InvStr(n) == IF n < 10 THEN <<0, n>> ELSE Digits(n)

\* x["mppt"] or "": the digits after the common prefix "MPPT "
MpptStr(m) == IF m = NoVal THEN <<>> ELSE Digits(m)

-----------------------------------------------------------------------------
(* _parse_array_block *)

\* the optional range group of m_inv_any, tried after the start number at j:
\* \s*-\s*(\d+)\b(?!\s*(Modules|Module|String|Mod))
InvHeaderRangeAt(s, j) ==
    /\ NumRangeAt(s, j)
    /\ LET e == SkipSp(s, SkipSp(s, j + 1) + 1)
       IN  /\ ~(e + 1 <= Len(s) /\ s[e + 1].k \in {"word", "inv", "mppt", "mod"})
           /\ ~IsKind(s, SkipSp(s, e + 1), "mod")

\* inverter ids of the header line: the first INV<digits>[-<digits>] only
header_inverter_ids(header) ==
    LET i == FirstPos(header, InvSingleAt)
        j == SkipSp(header, i + 1)
    IN  IF i = 0 THEN <<>>
        ELSE IF InvHeaderRangeAt(header, j)
        THEN PyRange(header[j].v, NumRangeEnd(header, j))
        ELSE <<header[j].v>>

InList(s, i) == i <= Len(s) /\ s[i].k \in {"num", "comma", "dash", "sp"}

RECURSIVE SkipHashSp(_, _)
SkipHashSp(s, i) ==
    IF i <= Len(s) /\ s[i].k \in {"hash", "sp"} THEN SkipHashSp(s, i + 1) ELSE i

RECURSIVE ListEnd(_, _)
ListEnd(s, i) == IF InList(s, i) THEN ListEnd(s, i + 1) ELSE i

\* MPPT[#\s]*([0-9,\-\s]+) matched at position i
MpptHeaderAt(s, i) ==
    /\ IsKind(s, i, "mppt")
    /\ \/ InList(s, SkipHashSp(s, i + 1))
       \/ SkipHashSp(s, i + 1) > i + 1 /\ s[SkipHashSp(s, i + 1) - 1].k = "sp"

\* mppt ids of the header line; <<>> when the key is not set
header_mppt_ids(header) ==
    LET i == FirstPos(header, MpptHeaderAt)
        j == SkipHashSp(header, i + 1)
    IN  IF i = 0 THEN <<>>
        ELSE parse_mppt_range(SubSeq(header, j, ListEnd(header, j) - 1))

\* pvsyst_azimuth_to_compass without the half turn from south to north
pvsyst_azimuth_to_compass_without_half_turn(az_pvsyst) == az_pvsyst % 360

\* staticmethod pvsyst_azimuth_to_compass
pvsyst_azimuth_to_compass(az_pvsyst) == (180 + az_pvsyst) % 360

\* the per-inverter count taken as the total of the line, undivided
per_inverter_mppt_count_undivided(total_mppts, inverter_ids) == total_mppts

\* "Number of inverters T * MPPT ...": the total over the array's inverters,
\* divided by their number
per_inverter_mppt_count(total_mppts, inverter_ids) ==
    LET num_invs == IF inverter_ids # <<>> THEN Len(inverter_ids) ELSE 1
    IN  total_mppts \div num_invs

parse_array_block(blk, unit_wp) ==
    LET inverter_ids == header_inverter_ids(blk.header)
    IN  [ array_id |-> blk.id,
          inverter_ids |-> inverter_ids,
          inverter_id |-> IF inverter_ids # <<>> THEN inverter_ids[1] ELSE NoVal,
          mppt_ids |-> header_mppt_ids(blk.header),
          mppt_count |-> IF blk.mpptT # NoVal
                         THEN per_inverter_mppt_count(blk.mpptT, inverter_ids)
                         ELSE NoVal,
          orientation_id |-> blk.ori,
          tilt_az |-> IF blk.tilt_az = <<>> THEN <<>>
                      ELSE <<blk.tilt_az[1], blk.tilt_az[2],
                             pvsyst_azimuth_to_compass(blk.tilt_az[2])>>,
          number_of_modules |-> blk.nmods,
          nominal_stc_kwp_from_module |->
              IF unit_wp # NoVal /\ unit_wp # 0 /\ blk.nmods # NoVal
              THEN unit_wp * blk.nmods ELSE NoVal,
          nominal_stc_kwp |-> blk.stc,
          strings |-> blk.strings,
          modules_in_series |-> blk.series,
          inverter_type |-> blk.own,
          inverter_type_id |-> NoVal,
          expanded_combinations |-> <<>> ]

-----------------------------------------------------------------------------
(* extract_orientations.  The matches of "Orientation #n" and of the three  *)
(* Tilt/Azimuth phrasings are marks: each has the offset of its first       *)
(* character (pos), a tilt mark also the offset after its last one (stop).  *)
(* Form 1 is "Tilt/Azimuth a / b", form 2 "Tilt a / Azimuth b", form 3      *)
(* "Tilt a, Azimuth b"; angles are whole degrees.                           *)

OriMark(id, pos) ==
    [k |-> "ori", id |-> id, form |-> 0, tilt |-> 0, az |-> 0, pos |-> pos, stop |-> pos]

TiltMark(form, tilt, az, pos, stop) ==
    [k |-> "tilt", id |-> 0, form |-> form, tilt |-> tilt, az |-> az,
     pos |-> pos, stop |-> stop]

\* re.finditer(r"Orientation\s*#?\s*(\d+)", all_text)
ori_matches(marks) == SelectSeq(marks, LAMBDA m : m.k = "ori")

\* the matches of one Tilt/Azimuth pattern, in text order
tilt_matches(marks, form) == SelectSeq(marks, LAMBDA m : m.k = "tilt" /\ m.form = form)

\* the record stored under an orientation id
orientation_record(t) == <<t.tilt, t.az, pvsyst_azimuth_to_compass(t.az)>>

\* the first tilt match at the smallest distance from ori_pos
closest_tilt(tilts, ori_pos) ==
    LET dist(i) == IF tilts[i].pos >= ori_pos THEN tilts[i].pos - ori_pos
                   ELSE ori_pos - tilts[i].pos
    IN  tilts[CHOOSE i \in 1..Len(tilts) :
                  /\ \A j \in 1..Len(tilts) : dist(i) <= dist(j)
                  /\ \A j \in 1..(i - 1) : dist(j) > dist(i)]

\* lines 330-354: every Orientation match, in text order, stores the record
\* of its nearest Tilt/Azimuth under its id
RECURSIVE nearest_pass(_, _, _)
nearest_pass(oris, tilts, found) ==
    IF oris = <<>> \/ tilts = <<>> THEN found
    ELSE nearest_pass(
             Tail(oris), tilts,
             [id \in DOMAIN found \cup {Head(oris).id} |->
                 IF id = Head(oris).id
                 THEN orientation_record(closest_tilt(tilts, Head(oris).pos))
                 ELSE found[id]])

\* all_text[m.start() : m.start() + 800]
WindowLen == 800

\* re.search of one pattern in the window after the orientation match o
window_search(marks, form, o) ==
    SelectSeq(tilt_matches(marks, form),
              LAMBDA t : t.pos >= o.pos /\ t.stop <= o.pos + WindowLen)

\* the three patterns, tried in turn
window_match(marks, o) ==
    IF window_search(marks, 1, o) # <<>> THEN window_search(marks, 1, o)
    ELSE IF window_search(marks, 2, o) # <<>> THEN window_search(marks, 2, o)
    ELSE window_search(marks, 3, o)

\* lines 356-397: an id that has no record yet takes the first match in the
\* window after its occurrence
RECURSIVE window_pass(_, _, _)
window_pass(oris, marks, found) ==
    IF oris = <<>> THEN found
    ELSE LET o == Head(oris)
             hit == window_match(marks, o)
         IN  window_pass(
                 Tail(oris), marks,
                 IF o.id \in DOMAIN found \/ hit = <<>> THEN found
                 ELSE [id \in DOMAIN found \cup {o.id} |->
                          IF id = o.id THEN orientation_record(hit[1]) ELSE found[id]])

extract_orientations(marks) ==
    window_pass(ori_matches(marks), marks,
                nearest_pass(ori_matches(marks), tilt_matches(marks, 1), <<>>))

\* parser.orientations = parser.extract_orientations(blocks)
ExtractOrientations ==
    /\ pc = "orient"
    /\ orientations' = extract_orientations(glob.marks)
    /\ pc' = "blocks"
    /\ UNCHANGED <<inputVars, bi, arrays, seen_ids, pending_inverter_type,
                   expanded_arrays, self_arrays, tables_consulted, table_arrays,
                   inverter_types>>
    /\ UNCHANGED <<rangeVars, allocVars, sessionVars>>

-----------------------------------------------------------------------------
(* parse_arrays_from_text: the loop over the array blocks *)

\* interactive mode: the inverter ids and MPPT labels the user entered take
\* the place of the parsed ones (inverter_id keeps the parsed one); user_inv
\* and user_mppt are <<>> for None and <<list>> for a list
interactive_array_config(array_data, blk) ==
    [array_data EXCEPT
        !.inverter_ids = IF blk.user_inv # <<>> THEN blk.user_inv[1] ELSE @,
        !.mppt_ids = IF blk.user_mppt # <<>> THEN blk.user_mppt[1] ELSE @]

\* parse_block_step with the check for a Modules line left out
parse_block_step_without_modules_check(blk, arrs, seen, pending, unit_wp) ==
    IF blk.id \in seen THEN [arrays |-> arrs, seen |-> seen, pending |-> pending]
    ELSE LET parsed == parse_array_block(blk, unit_wp)
         IN  [ arrays |-> Append(arrs, interactive_array_config(parsed, blk)),
               seen |-> seen \cup {blk.id},
               pending |-> IF blk.eq # NoVal THEN blk.eq ELSE pending ]

\* parse_block_step where the trailing equipment block of a block with a
\* seen id still becomes the pending inverter type
parse_block_step_with_equipment_of_seen_id(blk, arrs, seen, pending, unit_wp) ==
    IF blk.id \in seen
    THEN [arrays |-> arrs, seen |-> seen,
          pending |-> IF blk.eq # NoVal THEN blk.eq ELSE pending]
    ELSE IF ~blk.modules THEN [arrays |-> arrs, seen |-> seen, pending |-> pending]
    ELSE LET parsed == parse_array_block(blk, unit_wp)
             array_data ==
                 IF /\ pending # NoVal
                    /\ parsed.inverter_type = NoVal
                    /\ parsed.inverter_id # NoVal
                 THEN [parsed EXCEPT !.inverter_type = pending]
                 ELSE parsed
         IN  [ arrays |-> Append(arrs, interactive_array_config(array_data, blk)),
               seen |-> seen \cup {blk.id},
               pending |-> IF blk.eq # NoVal THEN blk.eq ELSE pending ]

\* parse_block_step where the trailing equipment block of a block becomes
\* the pending inverter type before the block's own array is completed
parse_block_step_with_equipment_of_own_block(blk, arrs, seen, pending, unit_wp) ==
    IF blk.id \in seen THEN [arrays |-> arrs, seen |-> seen, pending |-> pending]
    ELSE IF ~blk.modules THEN [arrays |-> arrs, seen |-> seen, pending |-> pending]
    ELSE LET parsed == parse_array_block(blk, unit_wp)
             now == IF blk.eq # NoVal THEN blk.eq ELSE pending
             array_data ==
                 IF /\ now # NoVal
                    /\ parsed.inverter_type = NoVal
                    /\ parsed.inverter_id # NoVal
                 THEN [parsed EXCEPT !.inverter_type = now]
                 ELSE parsed
         IN  [ arrays |-> Append(arrs, interactive_array_config(array_data, blk)),
               seen |-> seen \cup {blk.id},
               pending |-> now ]

\* the body of one iteration; a record of the three accumulators
\* parse_block_step with the id marked as seen before the Modules line is
\* looked for
parse_block_step_marking_stray_seen(blk, arrs, seen, pending, unit_wp) ==
    IF blk.id \in seen THEN [arrays |-> arrs, seen |-> seen, pending |-> pending]
    ELSE IF ~blk.modules
         THEN [arrays |-> arrs, seen |-> seen \cup {blk.id}, pending |-> pending]
    ELSE LET parsed == parse_array_block(blk, unit_wp)
             array_data ==
                 IF /\ pending # NoVal
                    /\ parsed.inverter_type = NoVal
                    /\ parsed.inverter_id # NoVal
                 THEN [parsed EXCEPT !.inverter_type = pending]
                 ELSE parsed
         IN  [ arrays |-> Append(arrs, interactive_array_config(array_data, blk)),
               seen |-> seen \cup {blk.id},
               pending |-> IF blk.eq # NoVal THEN blk.eq ELSE pending ]

parse_block_step(blk, arrs, seen, pending, unit_wp) ==
    IF blk.id \in seen THEN [arrays |-> arrs, seen |-> seen, pending |-> pending]
    ELSE IF ~blk.modules THEN [arrays |-> arrs, seen |-> seen, pending |-> pending]
    ELSE LET parsed == parse_array_block(blk, unit_wp)
             array_data ==
                 IF /\ pending # NoVal
                    /\ parsed.inverter_type = NoVal
                    /\ parsed.inverter_id # NoVal
                 THEN [parsed EXCEPT !.inverter_type = pending]
                 ELSE parsed
         IN  [ arrays |-> Append(arrs, interactive_array_config(array_data, blk)),
               seen |-> seen \cup {blk.id},
               pending |-> IF blk.eq # NoVal THEN blk.eq ELSE pending ]

ParseNextBlock ==
    /\ pc = "blocks"
    /\ bi <= Len(doc)
    /\ LET r == parse_block_step(doc[bi], arrays, seen_ids,
                                 pending_inverter_type, glob.unit_wp)
       IN  /\ arrays' = r.arrays
           /\ seen_ids' = r.seen
           /\ pending_inverter_type' = r.pending
    /\ bi' = bi + 1
    /\ UNCHANGED <<inputVars, pc, expanded_arrays, self_arrays, orientations,
                   tables_consulted, table_arrays, inverter_types>>
    /\ UNCHANGED <<rangeVars, allocVars, sessionVars>>

-----------------------------------------------------------------------------
(* parse_arrays_from_text: after the loop *)

Endpoint(array_id, inverter, mppt) ==
    [array_id |-> array_id, inverter |-> inverter, mppt |-> mppt, created |-> mppt]

\* expand_array_notation with the two loops exchanged: for each MPPT
\* label, every inverter
expand_array_notation_mppt_major(array_data) ==
    LET inverter_ids == array_data.inverter_ids
        mppt_ids == IF array_data.mppt_ids # <<>> THEN array_data.mppt_ids
                    ELSE IF array_data.mppt_count # NoVal /\ array_data.mppt_count # 0
                    THEN PyRange(1, array_data.mppt_count)
                    ELSE <<>>
        ni == Len(inverter_ids)
        nm == Len(mppt_ids)
    IN  IF inverter_ids = <<>> THEN <<>>
        ELSE IF mppt_ids # <<>>
        THEN [p \in 1..(ni * nm) |->
                 Endpoint(array_data.array_id,
                          inverter_ids[((p - 1) % ni) + 1],
                          mppt_ids[((p - 1) \div ni) + 1])]
        ELSE [p \in 1..ni |-> Endpoint(array_data.array_id, inverter_ids[p], NoVal)]

\* expand_array_notation without the endpoints that have no MPPT: an array
\* with inverter ids and no MPPT information is left to the later fallbacks
expand_array_notation_needing_labels(array_data) ==
    LET inverter_ids == array_data.inverter_ids
        mppt_ids == IF array_data.mppt_ids # <<>> THEN array_data.mppt_ids
                    ELSE IF array_data.mppt_count # NoVal /\ array_data.mppt_count # 0
                    THEN PyRange(1, array_data.mppt_count)
                    ELSE <<>>
        ni == Len(inverter_ids)
        nm == Len(mppt_ids)
    IN  IF inverter_ids = <<>> THEN <<>>
        ELSE IF mppt_ids # <<>>
        THEN [p \in 1..(ni * nm) |->
                 Endpoint(array_data.array_id,
                          inverter_ids[((p - 1) \div nm) + 1],
                          mppt_ids[((p - 1) % nm) + 1])]
        ELSE <<>>

expand_array_notation(array_data) ==
    LET inverter_ids == array_data.inverter_ids
        mppt_ids == IF array_data.mppt_ids # <<>> THEN array_data.mppt_ids
                    ELSE IF array_data.mppt_count # NoVal /\ array_data.mppt_count # 0
                    THEN PyRange(1, array_data.mppt_count)
                    ELSE <<>>
        ni == Len(inverter_ids)
        nm == Len(mppt_ids)
    IN  IF inverter_ids = <<>> THEN <<>>
        ELSE IF mppt_ids # <<>>
        THEN [p \in 1..(ni * nm) |->
                 Endpoint(array_data.array_id,
                          inverter_ids[((p - 1) \div nm) + 1],
                          mppt_ids[((p - 1) % nm) + 1])]
        ELSE [p \in 1..ni |-> Endpoint(array_data.array_id, inverter_ids[p], NoVal)]

\* the positions Len(ea)+1 .. Len(ea)+n: the combos just appended are the
\* same objects as the array's expanded_combinations
NewPositions(ea, n) == [p \in 1..n |-> Len(ea) + p]

\* for arr in arrays.values(): expand and extend self.expanded_arrays
RECURSIVE expand_all(_, _, _)
expand_all(arrs, i, ea) ==
    IF i > Len(arrs) THEN [arrays |-> arrs, ea |-> ea]
    ELSE LET combos == expand_array_notation(arrs[i])
         IN  expand_all(
                 [arrs EXCEPT ![i].expanded_combinations = NewPositions(ea, Len(combos))],
                 i + 1, ea \o combos)

\* the keys of a defaultdict filled in this order, without repetition
RECURSIVE FirstSeen(_)
FirstSeen(s) ==
    IF s = <<>> THEN <<>>
    ELSE LET r == FirstSeen(SubSeq(s, 1, Len(s) - 1))
         IN  IF \E i \in 1..Len(r) : r[i] = s[Len(s)] THEN r ELSE Append(r, s[Len(s)])

\* arr_list.sort(key=lambda x: x[0]) of the positions ps of arrs: stable
RECURSIVE SortById(_, _)
SortById(arrs, ps) ==
    IF ps = <<>> THEN <<>>
    ELSE LET m == CHOOSE i \in 1..Len(ps) :
                      /\ \A j \in 1..Len(ps) : arrs[ps[i]].array_id <= arrs[ps[j]].array_id
                      /\ \A j \in 1..(i - 1) : arrs[ps[j]].array_id # arrs[ps[i]].array_id
         IN  <<ps[m]>> \o SortById(arrs, SubSeq(ps, 1, m - 1) \o SubSeq(ps, m + 1, Len(ps)))

\* the positions of the arrays whose inverter list invs_of[p] holds inv
RECURSIVE PositionsWith(_, _, _)
PositionsWith(invs_of, inv, p) ==
    IF p > Len(invs_of) THEN <<>>
    ELSE (IF \E q \in 1..Len(invs_of[p]) : invs_of[p][q] = inv THEN <<p>> ELSE <<>>)
         \o PositionsWith(invs_of, inv, p + 1)

\* one inverter of the sequential assignment: its arrays in id order get
\* mppt_count (default 1) labels each, numbered on from mppt_idx
RECURSIVE sequential_for_inverter(_, _, _, _, _)
sequential_for_inverter(arrs, ea, inv, ps, mppt_idx) ==
    IF ps = <<>> THEN [arrays |-> arrs, ea |-> ea]
    ELSE LET data == arrs[ps[1]]
             n == IF data.mppt_count = NoVal THEN 1 ELSE data.mppt_count
             combos == [q \in 1..n |-> Endpoint(data.array_id, inv, mppt_idx + q - 1)]
         IN  sequential_for_inverter(
                 [arrs EXCEPT ![ps[1]].expanded_combinations = NewPositions(ea, n)],
                 ea \o combos, inv, Tail(ps), mppt_idx + n)

RECURSIVE sequential_assign(_, _, _, _)
sequential_assign(arrs, ea, invs_of, invs) ==
    IF invs = <<>> THEN [arrays |-> arrs, ea |-> ea]
    ELSE LET r == sequential_for_inverter(
                      arrs, ea, invs[1],
                      SortById(arrs, PositionsWith(invs_of, invs[1], 1)), 1)
         IN  sequential_assign(r.arrays, r.ea, invs_of, Tail(invs))

\* "arrays did not get expanded, assigning sequential MPPTs"
assign_unexpanded(arrs, ea) ==
    LET invs_of == [p \in 1..Len(arrs) |->
                       IF arrs[p].expanded_combinations = <<>>
                       THEN arrs[p].inverter_ids ELSE <<>>]
    IN  sequential_assign(arrs, ea, invs_of, FirstSeen(Flatten(invs_of)))

\* "using legacy inverter/MPPT assignment"
legacy_assign(arrs, ea) ==
    LET invs_of == [p \in 1..Len(arrs) |->
                       IF arrs[p].inverter_id # NoVal
                       THEN <<arrs[p].inverter_id>> ELSE <<>>]
    IN  IF ea # <<>> THEN [arrays |-> arrs, ea |-> ea]
        ELSE sequential_assign(arrs, ea, invs_of, FirstSeen(Flatten(invs_of)))

\* the sort key (int(x["array_id"]), x["mppt"] or "")
KeyLess(e1, e2) ==
    \/ e1.array_id < e2.array_id
    \/ e1.array_id = e2.array_id /\ LexLess(MpptStr(e1.mppt), MpptStr(e2.mppt))

\* combo q stands before combo p in its inverter's sorted list (a stable sort)
SortsBefore(ea, q, p) ==
    /\ ea[q].inverter = ea[p].inverter
    /\ \/ KeyLess(ea[q], ea[p])
       \/ ~KeyLess(ea[p], ea[q]) /\ q < p

\* reassign_mppt left out: the labels stay as the expansion made them
reassign_mppt_skipped(ea) == ea

\* "Reassign MPPT numbers sequentially per inverter to avoid duplicates"
reassign_mppt(ea) ==
    [p \in 1..Len(ea) |->
        [ea[p] EXCEPT !.mppt =
            1 + Cardinality({q \in 1..Len(ea) : q # p /\ SortsBefore(ea, q, p)})]]

\* the back-fill without the test for an orientation_id of the array's own
backfill_orientation_of_every_array(arrs, oris) ==
    IF Cardinality(DOMAIN oris) # 1 THEN arrs
    ELSE LET ori_id == CHOOSE o \in DOMAIN oris : TRUE
         IN  [p \in 1..Len(arrs) |->
                 [arrs[p] EXCEPT !.orientation_id = ori_id,
                                 !.tilt_az = oris[ori_id]]]

\* back-fill the orientation when the session holds exactly one
backfill_orientation(arrs, oris) ==
    IF Cardinality(DOMAIN oris) # 1 THEN arrs
    ELSE LET ori_id == CHOOSE o \in DOMAIN oris : TRUE
         IN  [p \in 1..Len(arrs) |->
                 IF arrs[p].orientation_id # NoVal THEN arrs[p]
                 ELSE [arrs[p] EXCEPT !.orientation_id = ori_id,
                                      !.tilt_az = oris[ori_id]]]

\* the array record parse_arrays_from_tables builds from one table row
table_array(row, unit_wp) ==
    [ array_id |-> row.id,
      inverter_ids |-> <<>>,
      inverter_id |-> NoVal,
      mppt_ids |-> <<>>,
      mppt_count |-> NoVal,
      orientation_id |-> NoVal,
      tilt_az |-> <<>>,
      number_of_modules |-> row.nmods,
      nominal_stc_kwp_from_module |->
          IF unit_wp # NoVal /\ unit_wp # 0 /\ row.nmods # NoVal
          THEN unit_wp * row.nmods ELSE NoVal,
      nominal_stc_kwp |-> row.stc,
      strings |-> row.strings,
      modules_in_series |-> row.series,
      inverter_type |-> NoVal,
      inverter_type_id |-> NoVal,
      expanded_combinations |-> <<>> ]

\* parse_arrays_from_tables: a row is stored in self.arrays unless its id is
\* there already
RECURSIVE parse_arrays_from_tables(_, _, _)
parse_arrays_from_tables(rows, sa, unit_wp) ==
    IF rows = <<>> THEN sa
    ELSE parse_arrays_from_tables(
             Tail(rows),
             IF \E p \in 1..Len(sa) : sa[p].array_id = Head(rows).id THEN sa
             ELSE Append(sa, table_array(Head(rows), unit_wp)),
             unit_wp)

\* "if not self.arrays: self.parse_arrays_from_tables()", reached unless no
\* page holds array text
tables_fallback_taken(array_pages, sa) == array_pages /\ sa = <<>>

\* lines 888-890 and 974-1093, and the caller's
\* self.arrays = parse_arrays_from_text(...)
FinishParse ==
    /\ pc = "blocks"
    /\ bi > Len(doc)
    /\ LET r1 == expand_all(arrays, 1, expanded_arrays)
           r2 == assign_unexpanded(r1.arrays, r1.ea)
           r3 == legacy_assign(r2.arrays, r2.ea)
           done == backfill_orientation(r3.arrays, orientations)
           consult == tables_fallback_taken(glob.array_pages, self_arrays)
       IN  IF ~glob.array_pages
           THEN /\ arrays' = <<>>
                /\ self_arrays' = <<>>
                /\ UNCHANGED <<expanded_arrays, tables_consulted, table_arrays>>
           ELSE /\ expanded_arrays' = reassign_mppt(r3.ea)
                /\ arrays' = done
                /\ self_arrays' = done
                /\ tables_consulted' = consult
                /\ table_arrays' =
                       IF consult
                       THEN parse_arrays_from_tables(tables, self_arrays, glob.unit_wp)
                       ELSE table_arrays
    /\ pc' = "parsed"
    /\ UNCHANGED <<inputVars, bi, seen_ids, pending_inverter_type, orientations,
                   inverter_types>>
    /\ UNCHANGED <<rangeVars, allocVars, sessionVars>>

-----------------------------------------------------------------------------
(* _collect_inverter_types.  An inverter type is the key (manufacturer,    *)
(* model, power), a number here; its id "inverter_<n>" is the number n.    *)

\* the keys of types, in insertion order: the arrays' own types as the
\* arrays are stored, then the type of the global inverter_info
type_keys(arrs, global_type) ==
    LET own == FirstSeen(Flatten([p \in 1..Len(arrs) |->
                   IF arrs[p].inverter_type # NoVal
                   THEN <<arrs[p].inverter_type>> ELSE <<>>]))
    IN  IF global_type # NoVal /\ \A i \in 1..Len(own) : own[i] # global_type
        THEN Append(own, global_type)
        ELSE own

\* type_id with a type_counter that runs on from session to session
type_id_from_running_counter(keys, key) ==
    (run - 1) * Len(keys) + (CHOOSE i \in 1..Len(keys) : keys[i] = key)

\* types[key]["id"]: type_counter when the key was inserted
type_id(keys, key) == CHOOSE i \in 1..Len(keys) : keys[i] = key

collect_inverter_types(arrs, global_type) ==
    LET keys == type_keys(arrs, global_type)
    IN  [ types |-> keys,
          arrays |-> [p \in 1..Len(arrs) |->
              [arrs[p] EXCEPT !.inverter_type_id =
                  IF arrs[p].inverter_type # NoVal
                  THEN type_id(keys, arrs[p].inverter_type)
                  ELSE IF global_type # NoVal THEN type_id(keys, global_type)
                  ELSE NoVal]] ]

\* parser.inverter_types = parser._collect_inverter_types()
CollectInverterTypes ==
    /\ pc = "parsed"
    /\ LET r == collect_inverter_types(self_arrays, glob.inverter_info)
       IN  /\ inverter_types' = r.types
           /\ self_arrays' = r.arrays
    /\ pc' = "typed"
    /\ UNCHANGED <<inputVars, bi, arrays, seen_ids, pending_inverter_type,
                   expanded_arrays, orientations, tables_consulted, table_arrays>>
    /\ UNCHANGED <<rangeVars, allocVars, sessionVars>>

-----------------------------------------------------------------------------
(* Numbers.  Powers are whole watts (a kWp figure with three decimals),    *)
(* quotients are exact fractions <<numerator, denominator>>.  Python       *)
(* computes them in binary floating point: a result that is a tie (or a    *)
(* whole number, for int()) in exact arithmetic may come out on either     *)
(* side, so round() at a tie and int() of a whole product of two rounded   *)
(* factors are choices between the two neighbours.                         *)

RECURSIVE GCD(_, _)
GCD(a, b) == IF b = 0 THEN a ELSE GCD(b, a % b)

Frac(n, d) == LET g == GCD(n, d) IN IF g = 0 THEN <<0, 1>> ELSE <<n \div g, d \div g>>

FracAdd(x, y) == Frac(x[1] * y[2] + y[1] * x[2], x[2] * y[2])

\* round(n / d): the nearest whole number, either neighbour at a tie
RoundChoices(n, d) ==
    LET q == n \div d
        r == n % d
    IN  IF 2 * r < d THEN {q} ELSE IF 2 * r > d THEN {q + 1} ELSE {q, q + 1}

\* the denominator of a fraction a binary float holds exactly
RECURSIVE IsPow2(_)
IsPow2(n) == n = 1 \/ (n > 1 /\ n % 2 = 0 /\ IsPow2(n \div 2))

\* m = 2^i + 2^j: then (x / m) * m = x in binary floating point for every
\* whole x
RECURSIVE IsTwoPowerSum(_)
IsTwoPowerSum(m) ==
    IF m % 2 = 0 THEN m > 0 /\ IsTwoPowerSum(m \div 2) ELSE m = 1 \/ IsPow2(m - 1)

\* int(n / (d * m) * m): the quotient n / (d * m) is rounded unless its
\* denominator is a power of two, and then the product, whose exact value is
\* n / d, may fall just below a whole number unless m = 2^i + 2^j
IntChoices(n, d, m) ==
    IF n > 0 /\ n % d = 0 /\ ~IsPow2(Frac(n, d * m)[2]) /\ ~IsTwoPowerSum(m)
    THEN {(n \div d) - 1, n \div d}
    ELSE {n \div d}

\* the functions f on DOMAIN ch with f[x] \in ch[x]
RECURSIVE Choices(_)
Choices(ch) ==
    IF DOMAIN ch = {} THEN {ch}
    ELSE LET x == CHOOSE y \in DOMAIN ch : TRUE
             rest == Choices([y \in DOMAIN ch \ {x} |-> ch[y]])
         IN  {(x :> v) @@ f : v \in ch[x], f \in rest}

RECURSIVE FracSum(_, _)
FracSum(f, S) ==
    IF S = {} THEN <<0, 1>>
    ELSE LET x == CHOOSE y \in S : TRUE IN FracAdd(f[x], FracSum(f, S \ {x}))

\* the sums of one choice per element of S
RECURSIVE SumChoices(_, _)
SumChoices(ch, S) ==
    IF S = {} THEN {0}
    ELSE LET x == CHOOSE y \in S : TRUE
         IN  {v + w : v \in ch[x], w \in SumChoices(ch, S \ {x})}

RECURSIVE SumOver(_, _)
SumOver(f, S) ==
    IF S = {} THEN 0
    ELSE LET x == CHOOSE y \in S : TRUE IN f[x] + SumOver(f, S \ {x})

-----------------------------------------------------------------------------
(* calculate_monthly_production *)

ArrayIds(arrs) == {arrs[p].array_id : p \in 1..Len(arrs)}

ArrayOf(arrs, id) == arrs[CHOOSE p \in 1..Len(arrs) : arrs[p].array_id = id]

Get(v, default) == IF v = NoVal THEN default ELSE v

Inverters(ea) == {ea[p].inverter : p \in 1..Len(ea)}

\* array_usage_count[array_id]
InvertersUsing(ea, id) == {ea[p].inverter : p \in {q \in 1..Len(ea) : ea[q].array_id = id}}

\* len(array_combos) for one inverter and one array
CombosOn(ea, inv, id) ==
    Cardinality({p \in 1..Len(ea) : ea[p].inverter = inv /\ ea[p].array_id = id})

\* the arrays of by_array that are in self.arrays
ArraysOn(ea, sa, inv) == {id \in ArrayIds(sa) : CombosOn(ea, inv, id) > 0}

extract_total_modules(sa, nb_modules) ==
    IF nb_modules # NoVal THEN nb_modules
    ELSE SumOver([id \in ArrayIds(sa) |-> Get(ArrayOf(sa, id).number_of_modules, 0)],
                 ArrayIds(sa))

\* capacity_share with capacity_per_mppt added once, not once per endpoint
capacity_share_of_one_endpoint(ea, sa, inv, id) ==
    LET array_capacity == Get(ArrayOf(sa, id).nominal_stc_kwp, 0)
        mppts_per_inverter == CombosOn(ea, inv, id)
        total_mppts == Cardinality(InvertersUsing(ea, id)) * mppts_per_inverter
    IN  <<array_capacity, total_mppts>>

\* capacity_per_mppt * mppts_per_inverter, for one inverter and one array
capacity_share(ea, sa, inv, id) ==
    LET array_capacity == Get(ArrayOf(sa, id).nominal_stc_kwp, 0)
        mppts_per_inverter == CombosOn(ea, inv, id)
        total_mppts == Cardinality(InvertersUsing(ea, id)) * mppts_per_inverter
    IN  <<array_capacity * mppts_per_inverter, total_mppts>>

\* int(modules_per_mppt * mppts_per_inverter), for one inverter and one array
module_share(ea, sa, inv, id) ==
    IntChoices(Get(ArrayOf(sa, id).number_of_modules, 0),
               Cardinality(InvertersUsing(ea, id)), CombosOn(ea, inv, id))

SharePairs(ea, sa) ==
    {<<inv, id>> \in Inverters(ea) \X ArrayIds(sa) : CombosOn(ea, inv, id) > 0}

capacity_shares_of(ea, sa) ==
    [pr \in SharePairs(ea, sa) |-> capacity_share(ea, sa, pr[1], pr[2])]

\* round(total_capacity, 1), in watts
capacity_choices(ea, sa, inv) ==
    LET shares == [id \in ArraysOn(ea, sa, inv) |-> capacity_share(ea, sa, inv, id)]
        total == FracSum(shares, ArraysOn(ea, sa, inv))
    IN  {100 * c : c \in RoundChoices(total[1], total[2] * 100)}

module_choices(ea, sa, inv) ==
    SumChoices([id \in ArraysOn(ea, sa, inv) |-> module_share(ea, sa, inv, id)],
               ArraysOn(ea, sa, inv))

\* round(system_production * module_share, 0): a module_share that a binary
\* float holds exactly makes the product exact, and round() takes a tie to
\* the even neighbour
monthly_choices(system_production, module_count, total_system_modules) ==
    LET n == system_production * module_count
        q == n \div total_system_modules
    IN  IF /\ 2 * (n % total_system_modules) = total_system_modules
           /\ IsPow2(Frac(module_count, total_system_modules)[2])
        THEN {IF q % 2 = 0 THEN q ELSE q + 1}
        ELSE RoundChoices(n, total_system_modules)

CalcMonthly ==
    /\ pc = "typed"
    /\ LET total_system_modules == extract_total_modules(self_arrays, glob.nb_modules)
           invs == Inverters(expanded_arrays)
       IN  /\ inverter_capacities' \in
                  Choices([inv \in invs |->
                              capacity_choices(expanded_arrays, self_arrays, inv)])
           /\ inverter_modules' \in
                  Choices([inv \in invs |->
                              module_choices(expanded_arrays, self_arrays, inv)])
           /\ capacity_shares' = capacity_shares_of(expanded_arrays, self_arrays)
           /\ IF invs = {}
              THEN monthly_production' = <<>> /\ pc' = "monthly"
              ELSE IF total_system_modules = 0
              THEN UNCHANGED monthly_production /\ pc' = "crashed"
              ELSE /\ monthly_production' \in
                          Choices([pr \in invs \X DOMAIN glob.monthly |->
                                      monthly_choices(glob.monthly[pr[2]],
                                                      inverter_modules'[pr[1]],
                                                      total_system_modules)])
                   /\ pc' = "monthly"
    /\ UNCHANGED <<mppt_allocation, associations, output>>
    /\ UNCHANGED <<inputVars, bi, arrays, seen_ids, pending_inverter_type,
                   expanded_arrays, self_arrays, orientations,
                   tables_consulted, table_arrays, inverter_types>>
    /\ UNCHANGED <<rangeVars, sessionVars>>

-----------------------------------------------------------------------------
(* to_dict: the per-endpoint allocation and the associations *)

\* tuple order of (combo["inverter"], combo["mppt"]), two strings
PairLess(p, q) ==
    \/ LexLess(InvStr(p[1]), InvStr(q[1]))
    \/ p[1] = q[1] /\ LexLess(MpptStr(p[2]), MpptStr(q[2]))

\* combos_by_array[array_id], as the set sorted(set(pairs)) is built from
PairsOf(ea, id) ==
    {<<ea[p].inverter, ea[p].mppt>> : p \in {q \in 1..Len(ea) : ea[q].array_id = id}}

\* idx of enumerate(unique_mppts)
IdxOf(pairs, pr) == Cardinality({q \in pairs : PairLess(q, pr)})

\* self.arrays.get(array_id, {})
ArrGet(sa, id, field) ==
    IF id \in ArrayIds(sa) THEN ArrayOf(sa, id)[field] ELSE NoVal

\* arr.get("nominal_stc_kwp_from_module") or arr.get("nominal_stc_kwp")
stc_kwp_of(sa, id) ==
    IF Get(ArrGet(sa, id, "nominal_stc_kwp_from_module"), 0) # 0
    THEN ArrGet(sa, id, "nominal_stc_kwp_from_module")
    ELSE ArrGet(sa, id, "nominal_stc_kwp")

\* strings_here with the extra strings going to the last endpoints
strings_here_extras_last(ea, sa, id, pr) ==
    LET strings == Get(ArrGet(sa, id, "strings"), 0)
        n_mppts == Cardinality(PairsOf(ea, id))
        base == strings \div n_mppts
        remainder == strings % n_mppts
    IN  base + (IF IdxOf(PairsOf(ea, id), pr) >= n_mppts - remainder THEN 1 ELSE 0)

strings_here(ea, sa, id, pr) ==
    LET strings == Get(ArrGet(sa, id, "strings"), 0)
        n_mppts == Cardinality(PairsOf(ea, id))
        base == strings \div n_mppts
        remainder == strings % n_mppts
    IN  base + (IF IdxOf(PairsOf(ea, id), pr) < remainder THEN 1 ELSE 0)

\* the values dc_here can take, in watts; NoVal is None
dc_here_choices(ea, sa, id, pr) ==
    LET strings == Get(ArrGet(sa, id, "strings"), 0)
        series == Get(ArrGet(sa, id, "modules_in_series"), 0)
        stc_kwp == stc_kwp_of(sa, id)
        modules_here == strings_here(ea, sa, id, pr) * series
    IN  IF Get(stc_kwp, 0) # 0 /\ strings * series # 0
        THEN RoundChoices(stc_kwp * modules_here, strings * series)
        ELSE {NoVal}

AllocKeys(ea) == {<<ea[p].inverter, ea[p].mppt, ea[p].array_id>> : p \in 1..Len(ea)}

\* allocation_choices with the modules of the whole array at every endpoint
allocation_choices_modules_of_whole_array(ea, sa) ==
    [key \in AllocKeys(ea) |->
        {[ strings |-> strings_here(ea, sa, key[3], <<key[1], key[2]>>),
           modules |-> Get(ArrGet(sa, key[3], "strings"), 0)
                          * Get(ArrGet(sa, key[3], "modules_in_series"), 0),
           dc_kwp |-> dc ] :
         dc \in dc_here_choices(ea, sa, key[3], <<key[1], key[2]>>)}]

allocation_choices(ea, sa) ==
    [key \in AllocKeys(ea) |->
        {[ strings |-> strings_here(ea, sa, key[3], <<key[1], key[2]>>),
           modules |-> strings_here(ea, sa, key[3], <<key[1], key[2]>>)
                          * Get(ArrGet(sa, key[3], "modules_in_series"), 0),
           dc_kwp |-> dc ] :
         dc \in dc_here_choices(ea, sa, key[3], <<key[1], key[2]>>)}]

\* associations[inv][mppt]: the last combo of the pair wins
associations_of(ea, alloc) ==
    [pr \in {<<ea[p].inverter, ea[p].mppt>> : p \in 1..Len(ea)} |->
        LET last == CHOOSE p \in 1..Len(ea) :
                        /\ <<ea[p].inverter, ea[p].mppt>> = pr
                        /\ \A q \in (p + 1)..Len(ea) : <<ea[q].inverter, ea[q].mppt>> # pr
            a == alloc[<<pr[1], pr[2], ea[last].array_id>>]
        IN  [ array_id |-> ea[last].array_id, strings |-> a.strings,
              modules |-> a.modules, dc_kwp |-> a.dc_kwp ]]

\* array_configurations: the arrays without their internal fields
array_configurations_of(sa) ==
    [p \in 1..Len(sa) |->
        [f \in DOMAIN sa[p] \ {"expanded_combinations", "inverter_type"} |-> sa[p][f]]]

\* type_id of inverter_summary: the inverter_type_id of the array of the
\* inverter's first combo whose array has one
summary_type_id(ea, sa, inv) ==
    LET typed == {p \in 1..Len(ea) :
                     /\ ea[p].inverter = inv
                     /\ Get(ArrGet(sa, ea[p].array_id, "inverter_type_id"), 0) # 0}
    IN  IF typed = {} THEN NoVal
        ELSE ArrGet(sa, ea[CHOOSE p \in typed : \A q \in typed : p <= q].array_id,
                    "inverter_type_id")

\* the dict to_dict returns (lines 2166-2186); the mappings this model does
\* not follow are empty
to_dict_result(assoc) ==
    [ metadata |->
          [ total_arrays |-> Len(self_arrays),
            total_expanded_combinations |-> Len(expanded_arrays),
            total_inverters |->
                IF DOMAIN inverter_capacities # {}
                THEN Cardinality(DOMAIN inverter_capacities)
                ELSE Cardinality(UNION {{self_arrays[p].inverter_ids[i] :
                                            i \in 1..Len(self_arrays[p].inverter_ids)} :
                                        p \in 1..Len(self_arrays)}) ],
      pv_module |-> glob.unit_wp,
      inverters |-> inverter_types,
      array_configurations |-> array_configurations_of(self_arrays),
      associations |-> assoc,
      inverter_summary |->
          [inv \in DOMAIN inverter_capacities |->
              [ capacity_kwp |-> inverter_capacities[inv],
                monthly_production |->
                    [m \in {n \in DOMAIN glob.monthly :
                                <<inv, n>> \in DOMAIN monthly_production} |->
                        monthly_production[<<inv, m>>]],
                type_id |-> summary_type_id(expanded_arrays, self_arrays, inv) ]],
      system_monthly_production |-> glob.monthly,
      system_monthly_globhor |-> <<>>,
      orientations |-> orientations,
      array_losses |-> <<>> ]

ToDict ==
    /\ pc = "monthly"
    /\ mppt_allocation' \in Choices(allocation_choices(expanded_arrays, self_arrays))
    /\ associations' = associations_of(expanded_arrays, mppt_allocation')
    /\ output' = to_dict_result(associations')
    /\ pc' = "done"
    /\ UNCHANGED <<inverter_capacities, inverter_modules, capacity_shares,
                   monthly_production>>
    /\ UNCHANGED <<inputVars, bi, arrays, seen_ids, pending_inverter_type,
                   expanded_arrays, self_arrays, orientations,
                   tables_consulted, table_arrays, inverter_types>>
    /\ UNCHANGED <<rangeVars, sessionVars>>

-----------------------------------------------------------------------------
(* A session: PVsystParser() and one document *)

\* __init__: every collection empty
Fresh ==
    /\ bi = 1
    /\ arrays = <<>>
    /\ seen_ids = {}
    /\ pending_inverter_type = NoVal
    /\ expanded_arrays = <<>>
    /\ self_arrays = <<>>
    /\ orientations = <<>>
    /\ tables_consulted = FALSE
    /\ table_arrays = <<>>
    /\ inverter_types = <<>>
    /\ inverter_capacities = <<>>
    /\ inverter_modules = <<>>
    /\ capacity_shares = <<>>
    /\ monthly_production = <<>>
    /\ mppt_allocation = <<>>
    /\ associations = <<>>
    /\ output = <<>>

\* no document is being parsed
Idle ==
    /\ doc = <<>>
    /\ glob = <<>>
    /\ tables = <<>>
    /\ pc = "idle"
    /\ run = 0
    /\ first_output = <<>>
    /\ Fresh

-----------------------------------------------------------------------------
(* The documents of the model *)

MaxBlocks == 3

MaxStrings == 5

MaxId == 2

\* one match of array_pattern: the header line and what the regular
\* expressions of _parse_array_block find in the block (NoVal: no match)
Blk(id, header, modules, strings, series, nmods, stc, mpptT) ==
    [ id |-> id, header |-> header, modules |-> modules, strings |-> strings,
      series |-> series, nmods |-> nmods, stc |-> stc, mpptT |-> mpptT,
      ori |-> NoVal, tilt_az |-> <<>>, eq |-> NoVal, own |-> NoVal,
      user_inv |-> <<>>, user_mppt |-> <<>> ]

\* what the document states outside the array blocks: the module's unit
\* power, "Nb. of modules", the E_Grid column, the orientation and tilt
\* marks, the type of the global inverter_info and whether a page holds
\* array text; the last four fields are read by no code under src/
Glob(nb_modules, monthly, inv_units, cfg_strings) ==
    [ unit_wp |-> NoVal, nb_modules |-> nb_modules, monthly |-> monthly,
      marks |-> <<>>, inverter_info |-> NoVal, array_pages |-> TRUE,
      inv_units |-> inv_units, cfg_strings |-> cfg_strings,
      mppt_per_inverter |-> 6, strings_per_mppt_max |-> 2 ]

GlobDefault == Glob(NoVal, <<120000>>, NoVal, NoVal)

\* "INV01 MPPT 2-3"
HExplicit == <<INV, N(1), SP, MPPT, SP, N(2), DASH, N(3)>>

\* "INV01-02"
HShared == <<INV, N(1), DASH, N(2)>>

\* "INV01"
HSingle == <<INV, N(1)>>

\* "INV02"
HOther == <<INV, N(2)>>

\* a header that names no inverter
HNone == <<WORD>>

\* "INV02-05, 7,8 MPPT 1-5", the header of the module docstring
HDocstring ==
    <<INV, N(2), DASH, N(5), COMMA, SP, N(7), COMMA, N(8),
      SP, MPPT, SP, N(1), DASH, N(5)>>

\* "INV01-02 MPPT 1-2"
HGrid == <<INV, N(1), DASH, N(2), SP, MPPT, SP, N(1), DASH, N(2)>>

\* "INV01-03 MPPT 1-3"
HGrid3 == <<INV, N(1), DASH, N(3), SP, MPPT, SP, N(1), DASH, N(3)>>

\* "INV01 MPPT 1-10"
HTen == <<INV, N(1), SP, MPPT, SP, N(1), DASH, N(10)>>

\* "INV09-10 MPPT 1"
HNineTen == <<INV, N(9), DASH, N(10), SP, MPPT, SP, N(1)>>

Docs(blocks, lens) == UNION {[1..n -> blocks] : n \in lens}

\* block j of the document carries the id j
Numbered(d) == [j \in 1..Len(d) |-> [d[j] EXCEPT !.id = j]]

\* explicit labels, labels synthesized from "Number of inverters 4 * MPPT",
\* no labels, another inverter, no inverter, no Modules line
TopoBlocks ==
    {Blk(1, t[1], t[2], 2, 3, 6, NoVal, t[3]) :
        t \in { <<HExplicit, TRUE, NoVal>>, <<HShared, TRUE, 4>>,
                <<HSingle, TRUE, NoVal>>, <<HOther, TRUE, NoVal>>,
                <<HNone, TRUE, NoVal>>, <<HSingle, FALSE, NoVal>> }}

TopoInputs ==
    {[doc |-> Numbered(d), glob |-> GlobDefault] : d \in Docs(TopoBlocks, 0..MaxBlocks)}
    \cup {[doc |-> <<Blk(1, HDocstring, TRUE, 2, 3, 6, NoVal, NoVal)>>,
           glob |-> GlobDefault]}

\* documents that repeat an array id
RepeatBlocks ==
    {Blk(id, t[1], t[2], 2, 3, 6, NoVal, NoVal) :
        id \in 1..MaxId,
        t \in {<<HExplicit, TRUE>>, <<HSingle, TRUE>>, <<HSingle, FALSE>>}}

RepeatInputs ==
    {[doc |-> d, glob |-> GlobDefault] : d \in Docs(RepeatBlocks, 1..MaxBlocks)}

StringBlocks ==
    {Blk(1, t[1], TRUE, strings, 3, 6, stc, t[2]) :
        t \in {<<HExplicit, NoVal>>, <<HShared, 4>>, <<HTen, NoVal>>, <<HNineTen, NoVal>>},
        strings \in {NoVal} \cup 0..MaxStrings,
        stc \in {NoVal, 100000}}

StringInputs ==
    {[doc |-> Numbered(d), glob |-> GlobDefault] : d \in Docs(StringBlocks, 1..2)}

\* capacities of 100 kWp, 100.1 kWp and 0.001 kWp, in watts
CapacityBlocks ==
    {Blk(1, header, TRUE, 2, 3, 6, stc, NoVal) :
        header \in {HGrid, HGrid3, HShared, HExplicit},
        stc \in {NoVal, 100000, 100100, 1}}

CapacityInputs ==
    {[doc |-> Numbered(d), glob |-> GlobDefault] : d \in Docs(CapacityBlocks, 1..2)}

MonthlyBlocks ==
    {Blk(1, header, TRUE, 2, 3, nmods, NoVal, NoVal) :
        header \in {HSingle, HOther, HShared, HNone},
        nmods \in {NoVal, 0, 3, 4, 6}}

MonthlyInputs ==
    {[doc |-> Numbered(d), glob |-> Glob(nb, monthly, NoVal, NoVal)] :
        d \in Docs(MonthlyBlocks, 1..2),
        nb \in {NoVal, 0, 10},
        monthly \in {<<>>, <<120000>>, <<7, 120000>>}}

\* documents without a parseable array block that state the plant's totals
PlantInputs ==
    {[doc |-> d, glob |-> Glob(nb, <<120000>>, units, cfg)] :
        d \in {<<>>, <<Blk(1, HSingle, FALSE, NoVal, NoVal, NoVal, NoVal, NoVal)>>},
        nb \in {NoVal, 864},
        units \in {NoVal, 3, 5},
        cfg \in {NoVal, 48}}

\* the text before the array pages: no orientation; one; two; one id
\* twice, each time next to another Tilt/Azimuth; one in the phrasings of
\* the window search; one id twice in those phrasings; one whose window
\* holds no tilt
Preambles ==
    { <<>>,
      <<OriMark(1, 100), TiltMark(1, 10, 0, 200, 230)>>,
      <<OriMark(1, 100), TiltMark(1, 10, -180, 200, 230),
        OriMark(2, 400), TiltMark(1, 20, 179, 500, 530)>>,
      <<OriMark(1, 100), TiltMark(1, 10, 0, 150, 180),
        OriMark(1, 600), TiltMark(1, 20, 90, 650, 680)>>,
      <<OriMark(1, 100), TiltMark(2, 15, -90, 300, 330)>>,
      <<OriMark(1, 50), TiltMark(3, 17, 0, 200, 230),
        OriMark(1, 900), TiltMark(2, 5, 45, 950, 980)>>,
      <<OriMark(3, 100), TiltMark(2, 15, 0, 950, 980)>> }

\* the marks an array block adds to the text: block j starts at offset
\* 1000 * j, its "Orientation #n" and its "Tilt/Azimuth a / b" follow
BlockMarks(d) ==
    Flatten([j \in 1..Len(d) |->
        (IF d[j].ori # NoVal THEN <<OriMark(d[j].ori, 1000 * j + 100)>> ELSE <<>>)
        \o (IF d[j].tilt_az # <<>>
            THEN <<TiltMark(1, d[j].tilt_az[1], d[j].tilt_az[2],
                            1000 * j + 200, 1000 * j + 230)>>
            ELSE <<>>)])

\* arrays with and without an orientation id and a Tilt/Azimuth line
OrientationBlocks ==
    {[Blk(1, HSingle, TRUE, 2, 3, 6, NoVal, NoVal) EXCEPT !.ori = o, !.tilt_az = t] :
        o \in {NoVal, 1, 2}, t \in {<<>>, <<30, -90>>}}

OrientationInputs ==
    {[doc |-> Numbered(d),
      glob |-> [GlobDefault EXCEPT !.marks = pre \o BlockMarks(Numbered(d))],
      tables |-> <<>>] :
        pre \in Preambles, d \in Docs(OrientationBlocks, 0..2)}

\* blocks that repeat an id, with another configuration, a trailing
\* equipment block (eq) or an inverter type of their own (own)
EquipmentBlocks ==
    {[Blk(id, HSingle, t[1], t[2], 3, 6, NoVal, NoVal) EXCEPT !.eq = t[3], !.own = t[4]] :
        id \in 1..MaxId,
        t \in { <<TRUE, 2, NoVal, NoVal>>, <<TRUE, 3, 7, NoVal>>,
                <<TRUE, 4, 8, 5>>, <<FALSE, 5, 7, NoVal>> }}

\* a block's own "PV module Inverter" lines are found by
\* extract_equipment_info too, so the global inverter_info is not empty then
EquipmentInputs ==
    {[doc |-> t[1], glob |-> [GlobDefault EXCEPT !.inverter_info = t[2]], tables |-> <<>>] :
        t \in {u \in Docs(EquipmentBlocks, 1..3) \X {NoVal, 5, 9} :
                  (\E j \in 1..Len(u[1]) : u[1][j].own # NoVal) => u[2] # NoVal}}

\* arrays with and without an inverter id, followed or not by an equipment
\* block, one with an inverter type of its own
CarryOverBlocks ==
    {[Blk(1, t[1], TRUE, 2, 3, 6, NoVal, NoVal) EXCEPT !.eq = t[2], !.own = t[3]] :
        t \in { <<HSingle, NoVal, NoVal>>, <<HSingle, 7, NoVal>>, <<HSingle, 8, NoVal>>,
                <<HSingle, NoVal, 5>>, <<HNone, NoVal, NoVal>> }}

CarryOverInputs ==
    {[doc |-> Numbered(d),
      glob |-> [GlobDefault EXCEPT !.inverter_info =
                   IF \E j \in 1..Len(d) : d[j].own # NoVal THEN 9 ELSE NoVal],
      tables |-> <<>>] :
        d \in Docs(CarryOverBlocks, 1..4)}

\* a module of 500 Wp; arrays with and without a printed "Nominal (STC)"
\* (3.1 kWp) and a "Number of PV modules" (6, hence 3.0 kWp)
DerivedBlocks ==
    {Blk(1, header, TRUE, 2, 3, nmods, stc, NoVal) :
        header \in {HSingle, HShared},
        nmods \in {NoVal, 6},
        stc \in {NoVal, 3100}}

DerivedInputs ==
    {[doc |-> Numbered(d), glob |-> [GlobDefault EXCEPT !.unit_wp = 500], tables |-> <<>>] :
        d \in Docs(DerivedBlocks, 1..2)}

\* interactive mode: arrays of 90 kWp and 6 modules for which the user
\* entered no inverter, "INV01,INV01,INV02", "INV01,INV02", "INV03" or ","
\* (an empty list), and no MPPT or "1,2"
InteractiveBlocks ==
    {[Blk(1, header, TRUE, 2, 3, 6, 90000, NoVal)
         EXCEPT !.user_inv = u, !.user_mppt = m] :
        header \in {HSingle, HExplicit, HNone},
        u \in {<<>>, <<<<1, 1, 2>>>>, <<<<1, 2>>>>, <<<<3>>>>, << <<>> >>},
        m \in {<<>>, <<<<1, 2>>>>}}

InteractiveInputs ==
    {[doc |-> Numbered(d), glob |-> GlobDefault, tables |-> <<>>] :
        d \in Docs(InteractiveBlocks, 1..2)}

\* "MPPT 1-2": labels without an inverter
HMpptOnly == <<MPPT, SP, N(1), DASH, N(2)>>

\* every header with every "Number of inverters T * MPPT" line
MpptCountBlocks ==
    {Blk(1, header, TRUE, 2, 3, 6, NoVal, mpptT) :
        header \in {HShared, HGrid, HSingle, HNone, HMpptOnly},
        mpptT \in {NoVal, 1, 4, 5}}

MpptCountInputs ==
    {[doc |-> Numbered(d), glob |-> GlobDefault, tables |-> <<>>] :
        d \in Docs(MpptCountBlocks, 1..2)}

\* one row of an array table: the id of its first column and the columns
\* the header names
Row(id, nmods) ==
    [id |-> id, nmods |-> nmods, stc |-> NoVal, strings |-> NoVal, series |-> NoVal]

\* documents with and without array text, with and without table rows
TableInputs ==
    {[doc |-> t[1], glob |-> [GlobDefault EXCEPT !.array_pages = t[2]], tables |-> rows] :
        t \in { <<<<>>, FALSE>>, <<<<>>, TRUE>>,
                <<<<Blk(1, HSingle, FALSE, 2, 3, 6, NoVal, NoVal)>>, TRUE>>,
                <<<<Blk(1, HSingle, TRUE, 2, 3, 6, NoVal, NoVal)>>, TRUE>>,
                <<<<Blk(1, HNone, TRUE, 2, 3, 6, NoVal, NoVal)>>, TRUE>> },
        rows \in {<<>>, <<Row(7, 12)>>, <<Row(1, 12), Row(7, NoVal)>>}}

Inputs(family) ==
    CASE family = "topology" -> TopoInputs
      [] family = "repeat" -> RepeatInputs
      [] family = "strings" -> StringInputs
      [] family = "capacity" -> CapacityInputs
      [] family = "monthly" -> MonthlyInputs
      [] family = "plant" -> PlantInputs
      [] family = "orientation" -> OrientationInputs
      [] family = "equipment" -> EquipmentInputs
      [] family = "mppt_count" -> MpptCountInputs
      [] family = "tables" -> TableInputs
      [] family = "carry_over" -> CarryOverInputs
      [] family = "derived" -> DerivedInputs
      [] family = "interactive" -> InteractiveInputs

\* PVsystParser() and the text of one document
StartOn(families) ==
    /\ rin = <<>>
    /\ rout = <<>>
    /\ rpc = "idle"
    /\ \E family \in families :
           \E inp \in Inputs(family) :
               /\ doc = inp.doc
               /\ glob = inp.glob
               /\ tables = IF "tables" \in DOMAIN inp THEN inp.tables ELSE <<>>
    /\ pc = "orient"
    /\ run = 1
    /\ first_output = <<>>
    /\ Fresh

Init ==
    StartOn({"topology", "repeat", "strings", "capacity", "monthly", "plant",
             "orientation", "equipment", "mppt_count", "tables", "carry_over",
             "derived", "interactive"})

Next ==
    \/ ExtractOrientations
    \/ ParseNextBlock
    \/ FinishParse
    \/ CollectInverterTypes
    \/ CalcMonthly
    \/ ToDict

Spec == Init /\ [][Next]_vars

-----------------------------------------------------------------------------
(* Two sessions on the same text.  The documents are those whose           *)
(* arithmetic is exact, so that every step of the model is a function of   *)
(* the text.                                                               *)

\* what a session leaves: how it ended, what to_dict returned and the
\* lists to_dict read, in their order
Outcome ==
    [ pc |-> pc, output |-> output, expanded_arrays |-> expanded_arrays,
      arrays |-> self_arrays, inverter_types |-> inverter_types,
      orientations |-> orientations ]

\* parser = PVsystParser(), for the same text again
NewSession ==
    /\ pc \in {"done", "crashed"}
    /\ run = 1
    /\ first_output' = Outcome
    /\ run' = 2
    /\ pc' = "orient"
    /\ bi' = 1
    /\ arrays' = <<>>
    /\ seen_ids' = {}
    /\ pending_inverter_type' = NoVal
    /\ expanded_arrays' = <<>>
    /\ self_arrays' = <<>>
    /\ orientations' = <<>>
    /\ tables_consulted' = FALSE
    /\ table_arrays' = <<>>
    /\ inverter_types' = <<>>
    /\ inverter_capacities' = <<>>
    /\ inverter_modules' = <<>>
    /\ capacity_shares' = <<>>
    /\ monthly_production' = <<>>
    /\ mppt_allocation' = <<>>
    /\ associations' = <<>>
    /\ output' = <<>>
    /\ UNCHANGED <<inputVars, rangeVars>>

InitTwice == StartOn({"orientation", "equipment", "mppt_count", "tables"})

NextTwice == Next \/ NewSession

SpecTwice == InitTwice /\ [][NextTwice]_vars

\* the same parser object parses the same text again: the locals of
\* parse_arrays_from_text start anew, the attributes of the object are what
\* the first run left
RerunOnSameParser ==
    /\ pc = "done"
    /\ run = 1
    /\ first_output' = Outcome
    /\ run' = 2
    /\ pc' = "orient"
    /\ bi' = 1
    /\ arrays' = <<>>
    /\ seen_ids' = {}
    /\ pending_inverter_type' = NoVal
    /\ UNCHANGED <<expanded_arrays, self_arrays, orientations, tables_consulted,
                   table_arrays, inverter_types>>
    /\ UNCHANGED <<inputVars, rangeVars, allocVars>>

InitRerun == StartOn({"orientation", "equipment", "mppt_count", "tables"})

NextRerun == Next \/ RerunOnSameParser

SpecRerun == InitRerun /\ [][NextRerun]_vars

-----------------------------------------------------------------------------
(* The range expanders applied to bounded inputs *)

MaxNum == 3

MaxParts == 2

Nums == 1..MaxNum

\* the shapes a comma-separated part takes
PartShapes ==
    {<<>>, <<WORD>>, <<DASH>>}
    \cup {<<N(a)>> : a \in Nums}
    \cup {<<SP, N(a)>> : a \in Nums}
    \cup {<<INV, N(a)>> : a \in Nums}
    \cup {<<INV, SP, N(a)>> : a \in Nums}
    \cup {<<MPPT, SP, N(a)>> : a \in Nums}
    \cup {<<N(a), DASH, WORD>> : a \in Nums}
    \cup {<<WORD, DASH, N(a)>> : a \in Nums}
    \cup {<<N(a), DASH, N(b)>> : a \in Nums, b \in Nums}
    \cup {<<N(a), SP, DASH, SP, N(b)>> : a \in Nums, b \in Nums}
    \cup {<<INV, N(a), DASH, N(b)>> : a \in Nums, b \in Nums}

RECURSIVE JoinComma(_)
JoinComma(parts) ==
    IF parts = <<>> THEN <<>>
    ELSE IF Len(parts) = 1 THEN parts[1]
    ELSE parts[1] \o <<COMMA>> \o JoinComma(Tail(parts))

\* "INV02-05,7,8", "INV02-05, 7,8", "INV 9-11,13", "MPPT 1-5", "MPPT 1,2,4"
ExampleInputs ==
    { <<INV, N(2), DASH, N(5), COMMA, N(7), COMMA, N(8)>>,
      <<INV, N(2), DASH, N(5), COMMA, SP, N(7), COMMA, N(8)>>,
      <<INV, SP, N(9), DASH, N(11), COMMA, N(13)>>,
      <<INV, N(2), DASH, N(5), COMMA, N(7), DASH, N(9)>>,
      <<MPPT, SP, N(1), DASH, N(5)>>,
      <<MPPT, SP, N(1), COMMA, N(2), COMMA, N(4)>> }

InitRange ==
    /\ \/ rin \in ExampleInputs
       \/ \E n \in 1..MaxParts : \E ps \in [1..n -> PartShapes] : rin = JoinComma(ps)
    /\ rout = <<>>
    /\ rpc = "input"
    /\ Idle

ApplyInverterRange ==
    /\ rpc = "input"
    /\ rout' = parse_inverter_range(rin)
    /\ rpc' = "inverter_range"
    /\ UNCHANGED <<rin, parseVars, allocVars, sessionVars>>

ApplyMpptRange ==
    /\ rpc = "input"
    /\ rout' = parse_mppt_range(rin)
    /\ rpc' = "mppt_range"
    /\ UNCHANGED <<rin, parseVars, allocVars, sessionVars>>

\* f"INV{i:02d}": the name of inverter i as text
inverter_name(i) == <<INV, N(i)>>

\* ",".join(inverters)
joined_names(inverters) ==
    JoinComma([i \in 1..Len(inverters) |-> inverter_name(inverters[i])])

\* parse_inverter_range on the joined names it returned
ReapplyInverterRange ==
    /\ rpc = "inverter_range"
    /\ rin' = joined_names(rout)
    /\ rout' = parse_inverter_range(rin')
    /\ rpc' = "inverter_range_again"
    /\ UNCHANGED <<parseVars, allocVars, sessionVars>>

NextRange == ApplyInverterRange \/ ApplyMpptRange \/ ReapplyInverterRange

SpecRange == InitRange /\ [][NextRange]_vars

-----------------------------------------------------------------------------
(* identify_sections and extract_section_contents.  The text of the pages  *)
(* is a sequence of tokens: a match of one alternative of a section        *)
(* pattern is one token (Marker), the rest is words and white space; the   *)
(* offset of a match is the index of its token.                            *)

Marker(alt) == [k |-> "marker", v |-> alt]

\* section_patterns, in the order of the dict
SectionNames ==
    << "Project Summary", "PV Array Characteristics", "System Losses",
       "Array Losses", "Main Results" >>

\* the alternatives of a name's pattern: 1 "Project summary", 2 "System
\* summary", 3 "Results summary", 4 "PV Array Characteristics", 5 "System
\* losses", 6 "Loss diagram", 7 "Array losses", 8 "Main results"
section_pattern(name) ==
    CASE name = "Project Summary" -> {1, 2, 3}
      [] name = "PV Array Characteristics" -> {4}
      [] name = "System Losses" -> {5, 6}
      [] name = "Array Losses" -> {7}
      [] name = "Main Results" -> {8}

\* all_text += page_data.get("full_text", "") + "\n"
all_text_of(page_text) == page_text \o <<SP>>

\* [m.start() for m in re.finditer(pattern, all_text)], from offset i on
RECURSIVE start_positions(_, _, _)
start_positions(all_text, alts, i) ==
    IF i > Len(all_text) THEN <<>>
    ELSE (IF all_text[i].k = "marker" /\ all_text[i].v \in alts THEN <<i>> ELSE <<>>)
         \o start_positions(all_text, alts, i + 1)

\* the names that have a match, each with its start positions
identify_sections(page_text) ==
    LET all_text == all_text_of(page_text)
    IN  [name \in {SectionNames[n] : n \in
                      {m \in 1..Len(SectionNames) :
                          start_positions(all_text, section_pattern(SectionNames[m]), 1)
                              # <<>>}} |->
            start_positions(all_text, section_pattern(name), 1)]

\* all_starts before the sort: for each section of the dict, in its order,
\* one (pos, sec_name) per start position
all_starts_as_collected(sections) ==
    Flatten([n \in 1..Len(SectionNames) |->
        IF SectionNames[n] \in DOMAIN sections
        THEN [i \in 1..Len(sections[SectionNames[n]]) |->
                 <<sections[SectionNames[n]][i], SectionNames[n]>>]
        ELSE <<>>])

\* the position of a name in the order of Python's string comparison; no
\* two names start with the same letter
NameRank(name) ==
    CASE name = "Array Losses" -> 1
      [] name = "Main Results" -> 2
      [] name = "PV Array Characteristics" -> 3
      [] name = "Project Summary" -> 4
      [] name = "System Losses" -> 5

\* tuple order of (pos, sec_name)
StartLess(a, b) == a[1] < b[1] \/ (a[1] = b[1] /\ NameRank(a[2]) < NameRank(b[2]))

\* all_starts.sort()
RECURSIVE SortStarts(_)
SortStarts(starts) ==
    IF starts = <<>> THEN <<>>
    ELSE LET m == CHOOSE i \in 1..Len(starts) :
                      /\ \A j \in 1..Len(starts) : ~StartLess(starts[j], starts[i])
                      /\ \A j \in 1..(i - 1) : StartLess(starts[i], starts[j])
         IN  <<starts[m]>>
             \o SortStarts(SubSeq(starts, 1, m - 1) \o SubSeq(starts, m + 1, Len(starts)))

\* all_starts without the sort
all_starts_of_unsorted(sections) == all_starts_as_collected(sections)

all_starts_of(sections) == SortStarts(all_starts_as_collected(sections))

\* the loop over all_starts from index i on: each content is appended to
\* the list of its section
RECURSIVE section_contents_from(_, _, _, _)
section_contents_from(all_text, all_starts, i, section_contents) ==
    IF i > Len(all_starts) THEN section_contents
    ELSE LET start == all_starts[i][1]
             sec_name == all_starts[i][2]
             end == IF i + 1 <= Len(all_starts) THEN all_starts[i + 1][1]
                    ELSE Len(all_text) + 1
             content == Strip(SubSeq(all_text, start, end - 1))
         IN  section_contents_from(
                 all_text, all_starts, i + 1,
                 [name \in DOMAIN section_contents \cup {sec_name} |->
                     IF name = sec_name
                     THEN (IF name \in DOMAIN section_contents
                           THEN section_contents[name] ELSE <<>>) \o <<content>>
                     ELSE section_contents[name]])

extract_section_contents(page_text, sections) ==
    section_contents_from(all_text_of(page_text), all_starts_of(sections), 1, <<>>)

\* the characters of a page: markers of three sections, a word, a space
SectionTokens == {Marker(1), Marker(2), Marker(4), Marker(7), WORD, SP}

InitSections ==
    /\ rin \in Docs(SectionTokens, 0..4)
    /\ rout = <<>>
    /\ rpc = "input"
    /\ Idle

\* self.sections = self.identify_sections(blocks)
IdentifySections ==
    /\ rpc = "input"
    /\ rout' = [sections |-> identify_sections(rin)]
    /\ rpc' = "identified"
    /\ UNCHANGED <<rin, parseVars, allocVars, sessionVars>>

\* self.section_contents = self.extract_section_contents(blocks, self.sections)
ExtractSectionContents ==
    /\ rpc = "identified"
    /\ rout' = [sections |-> rout.sections,
                section_contents |-> extract_section_contents(rin, rout.sections)]
    /\ rpc' = "extracted"
    /\ UNCHANGED <<rin, parseVars, allocVars, sessionVars>>

NextSections == IdentifySections \/ ExtractSectionContents

SpecSections == InitSections /\ [][NextSections]_vars

-----------------------------------------------------------------------------
(* extract_equipment_info.  The text is given by whether it holds the       *)
(* header "PV module Inverter" and by the lines of the 600 characters after *)
(* it: a line that holds a label has the values that follow each            *)
(* occurrence of the label (its columns), any other line has no label.      *)
(* Values are numbers.                                                      *)

EquipmentLabels == {"manufacturer", "model", "unit_nom_power"}

EqLine(label, cols) == [label |-> label, cols |-> cols]

\* next((ln for ln in lines if label in ln), None): 0 for None
first_line_with(lines, label) ==
    IF \A i \in 1..Len(lines) : lines[i].label # label THEN 0
    ELSE CHOOSE i \in 1..Len(lines) :
             /\ lines[i].label = label
             /\ \A j \in 1..(i - 1) : lines[j].label # label

\* re.search(label\s+(.+?)\s+label\s+(.+)) on the first line that holds the
\* label: the two groups, or <<>> when there is no match
two_columns(lines, label) ==
    LET i == first_line_with(lines, label)
    IN  IF i = 0 THEN <<>>
        ELSE IF Len(lines[i].cols) < 2 THEN <<>>
        ELSE <<lines[i].cols[1], lines[i].cols[2]>>

\* self.module_info and self.inverter_info after the call on a fresh parser
extract_equipment_info(text) ==
    LET found == {label \in EquipmentLabels :
                     text.header /\ two_columns(text.lines, label) # <<>>}
    IN  [ module_info |-> [label \in found |-> two_columns(text.lines, label)[1]],
          inverter_info |-> [label \in found |-> two_columns(text.lines, label)[2]] ]

\* the lines of an equipment block: each label with one or two columns, and
\* a line without label
EquipmentLines ==
    {EqLine(label, cols) : label \in EquipmentLabels, cols \in {<<1>>, <<1, 2>>}}
    \cup {EqLine("", <<>>)}

InitEquipment ==
    /\ rin \in {[header |-> h, lines |-> ls] :
                   h \in BOOLEAN, ls \in Docs(EquipmentLines, 0..3)}
    /\ rout = <<>>
    /\ rpc = "input"
    /\ Idle

\* self.extract_equipment_info(blocks)
ExtractEquipmentInfo ==
    /\ rpc = "input"
    /\ rout' = extract_equipment_info(rin)
    /\ rpc' = "equipment"
    /\ UNCHANGED <<rin, parseVars, allocVars, sessionVars>>

NextEquipment == ExtractEquipmentInfo

SpecEquipment == InitEquipment /\ [][NextEquipment]_vars

-----------------------------------------------------------------------------
(* Claims about the range expanders *)

\* what the range grammar gives for one part: a single number or a range
\* start-end, with or without spaces around the dash, with or without the
\* INV prefix
Unprefixed(part) == IF IsKind(part, 1, "inv") THEN Strip(Tail(part)) ELSE part

IsSingle(part) == Len(part) = 1 /\ part[1].k = "num"

IsPlainRange(part) ==
    \/ Len(part) = 3 /\ part[1].k = "num" /\ part[2].k = "dash" /\ part[3].k = "num"
    \/ /\ Len(part) = 5
       /\ part[1].k = "num" /\ part[2].k = "sp" /\ part[3].k = "dash"
       /\ part[4].k = "sp" /\ part[5].k = "num"

\* a range one of whose endpoints is no number
IsBrokenRange(part) ==
    \/ Len(part) = 1 /\ part[1].k = "dash"
    \/ Len(part) = 3 /\ part[2].k = "dash" /\ part[1].k = "num" /\ part[3].k = "word"
    \/ Len(part) = 3 /\ part[2].k = "dash" /\ part[1].k = "word" /\ part[3].k = "num"

GrammarIds(part) ==
    IF IsSingle(part) THEN <<part[1].v>>
    ELSE IF IsPlainRange(part) THEN PyRange(part[1].v, part[Len(part)].v)
    ELSE <<>>

InGrammar(part) == IsSingle(part) \/ IsPlainRange(part)

InvParts == StripParts(Strip(rin))

MpptParts == StripParts(StripMpptPrefix(Strip(rin)))

\* C4: parse_inverter_range expands every part of a comma-separated list,
\* single numbers and ranges, with or without the INV prefix (a bare range
\* such as "7-9" included), into its ids at the part's position;
\* "INV02-05,7,8" gives INV02..INV05, INV07, INV08.
C4_InverterRangeExpandsEveryPart ==
    rpc = "inverter_range" =>
        /\ rin = <<INV, N(2), DASH, N(5), COMMA, N(7), COMMA, N(8)>>
               => rout = <<2, 3, 4, 5, 7, 8>>
        /\ (\A i \in 1..Len(InvParts) : InGrammar(Unprefixed(InvParts[i])))
               => rout = Flatten([i \in 1..Len(InvParts) |->
                                     GrammarIds(Unprefixed(InvParts[i]))])

\* C6: parse_mppt_range gives "MPPT 1-5" -> MPPT 1..5 and "MPPT 1,2,4" ->
\* MPPT 1, 2, 4; every single number or range contributes its labels in
\* order of appearance, a part whose range has a non-numeric endpoint
\* contributes nothing, and no part changes what the other parts contribute.
C6_MpptRangeExpansion ==
    rpc = "mppt_range" =>
        /\ rin = <<MPPT, SP, N(1), DASH, N(5)>> => rout = <<1, 2, 3, 4, 5>>
        /\ rin = <<MPPT, SP, N(1), COMMA, N(2), COMMA, N(4)>> => rout = <<1, 2, 4>>
        /\ (\A i \in 1..Len(MpptParts) :
                InGrammar(MpptParts[i]) \/ IsBrokenRange(MpptParts[i]))
               => rout = Flatten([i \in 1..Len(MpptParts) |-> GrammarIds(MpptParts[i])])
        /\ rout = Flatten([i \in 1..Len(SplitComma(rin)) |->
                              parse_mppt_range(SplitComma(rin)[i])])

\* a list with a broken range next to a valid part has been expanded
C6_Witness ==
    /\ rpc = "mppt_range"
    /\ Len(MpptParts) = 2
    /\ IsBrokenRange(MpptParts[1])
    /\ IsPlainRange(MpptParts[2])
    /\ Len(rout) = 2

-----------------------------------------------------------------------------
(* Claims about a session *)

Parsed == pc \in {"parsed", "typed", "monthly", "done", "crashed"}

Abs(x) == IF x < 0 THEN -x ELSE x

OnInverter(inv) ==
    {p \in 1..Len(expanded_arrays) : expanded_arrays[p].inverter = inv}

\* C1: in to_dict, the 'strings' values of the n >= 1 distinct
\* (inverter, mppt) endpoints of an array with strings = S add up to S,
\* differ by at most 1, and never grow along the sorted order of the
\* (inverter, mppt) pairs, so that exactly the first S mod n endpoints of
\* that order hold the extra string; associations carries the same values.
C1_StringsSpreadEvenly ==
    pc = "done" =>
        \A id \in ArrayIds(self_arrays) :
            LET pairs == PairsOf(expanded_arrays, id)
                S == Get(ArrayOf(self_arrays, id).strings, 0)
                n == Cardinality(pairs)
                got == [pr \in pairs |-> mppt_allocation[<<pr[1], pr[2], id>>].strings]
            IN  n >= 1 =>
                    /\ SumOver(got, pairs) = S
                    /\ \A p1, p2 \in pairs : got[p1] - got[p2] <= 1
                    /\ \A p1, p2 \in pairs : PairLess(p1, p2) => got[p1] >= got[p2]
                    /\ Cardinality({pr \in pairs : got[pr] = (S \div n) + 1}) = S % n
                    /\ \A pr \in pairs : associations[pr].strings = got[pr]

\* three strings over the ten endpoints of one inverter: "MPPT 10" sorts
\* before "MPPT 3" and holds a string, "MPPT 3" holds none
C1_Witness ==
    /\ pc = "done"
    /\ \E id \in ArrayIds(self_arrays) :
          /\ ArrayOf(self_arrays, id).strings = 3
          /\ Cardinality(PairsOf(expanded_arrays, id)) = 10
          /\ mppt_allocation[<<1, 10, id>>].strings = 1
          /\ mppt_allocation[<<1, 3, id>>].strings = 0

\* C2: once parse_arrays_from_text has finished, every endpoint carries a
\* label and no two endpoints of one inverter carry the same label, whether
\* their labels came from the header, from mppt_count, or were missing.
C2_NoDuplicateMpptPerInverter ==
    Parsed =>
        \A p, q \in 1..Len(expanded_arrays) :
            /\ expanded_arrays[p].mppt # NoVal
            /\ (p # q /\ expanded_arrays[p].inverter = expanded_arrays[q].inverter)
                   => expanded_arrays[p].mppt # expanded_arrays[q].mppt

\* one inverter holds an endpoint labelled by a header, one labelled from
\* mppt_count and one created without a label
C2_Witness ==
    /\ pc = "parsed"
    /\ \E inv \in Inverters(expanded_arrays) :
          \E p, q, r \in OnInverter(inv) :
              /\ ArrayOf(self_arrays, expanded_arrays[p].array_id).mppt_ids # <<>>
              /\ ArrayOf(self_arrays, expanded_arrays[q].array_id).mppt_ids = <<>>
              /\ expanded_arrays[q].created # NoVal
              /\ expanded_arrays[r].created = NoVal

\* C3: an endpoint created with a label still carries that label after
\* parse_arrays_from_text; an endpoint created without one carries the
\* lowest number that no labelled endpoint of its inverter uses (and no
\* other back-filled endpoint took before it).
C3_ExplicitLabelsUntouched ==
    Parsed =>
        \A p \in 1..Len(expanded_arrays) :
            LET mine == OnInverter(expanded_arrays[p].inverter)
                explicit == {expanded_arrays[q].created :
                                q \in {r \in mine : expanded_arrays[r].created # NoVal}}
                filled == {expanded_arrays[q].mppt :
                              q \in {r \in mine \ {p} : expanded_arrays[r].created = NoVal}}
            IN  /\ expanded_arrays[p].created # NoVal
                       => expanded_arrays[p].mppt = expanded_arrays[p].created
                /\ expanded_arrays[p].created = NoVal
                       => /\ expanded_arrays[p].mppt \notin explicit
                          /\ \A n \in 1..(expanded_arrays[p].mppt - 1) :
                                 n \in explicit \cup filled

\* the header text from "INV" up to "MPPT"
InverterText(header) ==
    LET i == FirstPos(header, LAMBDA s, j : s[j].k = "inv")
        rest == SubSeq(header, i, Len(header))
        m == FirstPos(rest, LAMBDA s, j : s[j].k = "mppt")
    IN  IF i = 0 THEN <<>>
        ELSE IF m = 0 THEN rest
        ELSE SubSeq(rest, 1, m - 1)

\* C5: an array's inverter_ids are what the comma-aware range expander
\* gives for the header's inverter text; "INV02-05, 7,8 MPPT 1-5" gives
\* INV02..INV05, INV07, INV08 and 6 x 5 = 30 endpoints.
C5_HeaderInverterListExpanded ==
    Parsed =>
        /\ \A j \in 1..Len(doc) :
              (doc[j].modules
               /\ \A i \in 1..(j - 1) : ~(doc[i].modules /\ doc[i].id = doc[j].id))
                  => ArrayOf(self_arrays, doc[j].id).inverter_ids
                         = parse_inverter_range(InverterText(doc[j].header))
        /\ (Len(doc) = 1 /\ doc[1].modules /\ doc[1].header = HDocstring)
               => /\ Inverters(expanded_arrays) = {2, 3, 4, 5, 7, 8}
                  /\ Len(expanded_arrays) = 30

\* C7: an array is in the set of parse_arrays_from_text only if a block
\* with its id that the loop has read contains a 'Modules <N> string' line.
C7_NoModulesLineNoArray ==
    /\ \A p \in 1..Len(arrays) :
          \E j \in 1..Len(doc) :
              j < bi /\ doc[j].id = arrays[p].array_id /\ doc[j].modules
    /\ \A p \in 1..Len(self_arrays) :
          \E j \in 1..Len(doc) : doc[j].id = self_arrays[p].array_id /\ doc[j].modules

\* a document with a block without a Modules line, whose id is no array,
\* next to a block that became an array
C7_Witness ==
    /\ pc = "parsed"
    /\ self_arrays # <<>>
    /\ \E j \in 1..Len(doc) :
          ~doc[j].modules /\ doc[j].id \notin ArrayIds(self_arrays)

\* C8: an array of capacity C whose k inverters hold the same number m of
\* its endpoints adds exactly C/k to the capacity of each of them, the k
\* shares add up to C, and an inverter fed by this array alone reports C/k
\* rounded to one decimal of a kWp (100 kWp, k = 2, m = 2: 50 kWp each).
C8_CapacitySharedEqually ==
    pc \in {"monthly", "done", "crashed"} =>
        \A id \in ArrayIds(self_arrays) :
            LET users == InvertersUsing(expanded_arrays, id)
                k == Cardinality(users)
                C == Get(ArrayOf(self_arrays, id).nominal_stc_kwp, 0)
            IN  (k >= 1 /\ \A i1, i2 \in users :
                               CombosOn(expanded_arrays, i1, id)
                                   = CombosOn(expanded_arrays, i2, id))
                => /\ \A inv \in users :
                          capacity_shares[<<inv, id>>][1] * k
                              = C * capacity_shares[<<inv, id>>][2]
                   /\ FracSum([inv \in users |-> capacity_shares[<<inv, id>>]], users)
                          = <<C, 1>>
                   /\ \A inv \in users :
                          ArraysOn(expanded_arrays, self_arrays, inv) = {id}
                              => 2 * Abs(k * inverter_capacities[inv] - C) <= 100 * k
                   /\ (C = 100000 /\ k = 2 /\ Len(self_arrays) = 1)
                          => \A inv \in users : inverter_capacities[inv] = 50000

\* 100 kWp on two inverters with two endpoints each
C8_Witness ==
    /\ pc = "monthly"
    /\ Len(self_arrays) = 1
    /\ self_arrays[1].nominal_stc_kwp = 100000
    /\ Inverters(expanded_arrays) = {1, 2}
    /\ CombosOn(expanded_arrays, 1, self_arrays[1].array_id) = 2
    /\ inverter_capacities[1] = 50000
    /\ inverter_capacities[2] = 50000

\* C9: an inverter's value for a month is the plant value times
\* inverter_modules / total_plant_modules rounded to a whole unit (120000
\* at 60% gives 72000), and the values of all inverters for a month add up
\* to the plant value within 1 per inverter.
C9_MonthlySharesSumToPlantTotal ==
    (pc \in {"monthly", "done"} /\ Inverters(expanded_arrays) # {}) =>
        LET total == extract_total_modules(self_arrays, glob.nb_modules)
            invs == Inverters(expanded_arrays)
        IN  \A m \in DOMAIN glob.monthly :
                /\ \A inv \in invs :
                       2 * Abs(monthly_production[<<inv, m>>] * total
                                   - glob.monthly[m] * inverter_modules[inv]) <= total
                /\ \A inv \in invs :
                       (glob.monthly[m] = 120000 /\ 10 * inverter_modules[inv] = 6 * total)
                           => monthly_production[<<inv, m>>] = 72000
                /\ Abs(SumOver([inv \in invs |-> monthly_production[<<inv, m>>]], invs)
                           - glob.monthly[m]) <= Cardinality(invs)

\* C10: when no array block is parsed and the document states a module
\* count, an inverter-unit count and a 'Modules S strings x M' line, there
\* is one (inferred) array, on the inverters INV01..INVk with
\* k = ceil(S / (mppt_per_inverter x strings_per_mppt_max)), also when the
\* stated unit count is larger (48 strings, 6 x 2: INV01..INV04).
C10_SingleConfigurationInferred ==
    (/\ pc = "done"
     /\ \A j \in 1..Len(doc) : ~doc[j].modules
     /\ glob.nb_modules # NoVal
     /\ glob.inv_units # NoVal
     /\ glob.cfg_strings # NoVal) =>
        LET per_inverter == glob.mppt_per_inverter * glob.strings_per_mppt_max
            required == (glob.cfg_strings + per_inverter - 1) \div per_inverter
        IN  /\ Len(self_arrays) = 1
            /\ Inverters(expanded_arrays) = 1..required

-----------------------------------------------------------------------------
(* Claims about two sessions *)

-----------------------------------------------------------------------------
(* Claims about orientations and the returned dict *)

\* a stored <<tilt, azimuth_pvsyst_deg, azimuth_compass_deg>> whose PVsyst
\* azimuth lies in [-180, 180) holds the compass bearing of that azimuth
HoldsCompass(t) ==
    t[2] \in -180..179 =>
        /\ t[3] \in 0..359
        /\ (t[3] - 180 - t[2]) % 360 = 0
        /\ t[2] = 0 => t[3] = 180

\* C12: for a PVsyst azimuth a in [-180, 180) the compass azimuth is
\* (180 + a) mod 360, a value in [0, 360), and 180 for a = 0; every
\* orientation record and every array that has a tilt/azimuth stores this
\* value as its azimuth_compass_deg, in the session and in the output.
C12_CompassAzimuth ==
    /\ \A id \in DOMAIN orientations : HoldsCompass(orientations[id])
    /\ \A p \in 1..Len(arrays) :
          arrays[p].tilt_az # <<>> => HoldsCompass(arrays[p].tilt_az)
    /\ \A p \in 1..Len(self_arrays) :
          self_arrays[p].tilt_az # <<>> => HoldsCompass(self_arrays[p].tilt_az)
    /\ pc = "done" =>
          \A p \in 1..Len(output.array_configurations) :
              output.array_configurations[p].tilt_az # <<>>
                  => HoldsCompass(output.array_configurations[p].tilt_az)

\* azimuths -180 and 179 in two orientations and -90 in an array: compass
\* 0, 359 and 90
C12_Witness ==
    /\ pc = "parsed"
    /\ DOMAIN orientations = {1, 2}
    /\ orientations[1] = <<10, -180, 0>>
    /\ orientations[2] = <<20, 179, 359>>
    /\ \E p \in 1..Len(self_arrays) : self_arrays[p].tilt_az = <<30, -90, 90>>

\* C13: the dict to_dict returns has the top-level keys of the output
\* contract (metadata, pv_module, inverter, inverter_types,
\* array_configurations, associations, inverter_summary,
\* system_monthly_production, system_monthly_globhor, orientations,
\* array_losses), and every entry of associations names its array under
\* config_id.
C13_OutputContractKeys ==
    pc = "done" =>
        /\ { "metadata", "pv_module", "inverter", "inverter_types",
              "array_configurations", "associations", "inverter_summary",
              "system_monthly_production", "system_monthly_globhor",
              "orientations", "array_losses" } \subseteq DOMAIN output
        /\ \A pr \in DOMAIN output.associations :
              "config_id" \in DOMAIN output.associations[pr]

\* C14: calculate_monthly_production always completes, with a value for
\* every inverter and month, also when there are endpoints and the plant
\* module total is zero.
C14_MonthlyNeverAborts ==
    /\ pc # "crashed"
    /\ pc \in {"monthly", "done"} =>
          DOMAIN monthly_production
              \in {{}, Inverters(expanded_arrays) \X DOMAIN glob.monthly}

-----------------------------------------------------------------------------
(* Claims about the sources of arrays *)

\* C15: the rows of the table provider become the session's arrays
\* exactly when text parsing found no array; when text parsing found an
\* array, parse_arrays_from_tables is not called and the arrays are those
\* of the text; and with no tables the fallback stores nothing and the run
\* goes on.
C15_TablesAreLastResort ==
    Parsed =>
        /\ Len(arrays) = 0
               => ArrayIds(self_arrays) = {tables[i].id : i \in 1..Len(tables)}
        /\ Len(arrays) > 0
               => /\ ~tables_consulted
                  /\ ArrayIds(self_arrays) = ArrayIds(arrays)
        /\ tables = <<>> => table_arrays = <<>>

\* the Orientation matches of one id, in text order
occurrences(marks, id) == SelectSeq(ori_matches(marks), LAMBDA o : o.id = id)

\* C16: an orientation id that occurs several times keeps the record
\* resolved at its first occurrence (the Tilt/Azimuth match nearest to that
\* occurrence); later occurrences of the id never overwrite it.
C16_FirstResolutionWins ==
    pc # "orient" =>
        \A id \in DOMAIN orientations :
            tilt_matches(glob.marks, 1) # <<>> =>
                orientations[id] =
                    orientation_record(
                        closest_tilt(tilt_matches(glob.marks, 1),
                                     occurrences(glob.marks, id)[1].pos))

-----------------------------------------------------------------------------
(* Claims about the array-block loop *)

\* block j is the one stored under its id: the first block of that id with
\* a Modules line
Stored(j) ==
    /\ doc[j].modules
    /\ \A i \in 1..(j - 1) : ~(doc[i].id = doc[j].id /\ doc[i].modules)

\* the trailing equipment block of the last stored block before block n
\* that has one
PendingBefore(n) ==
    LET with_eq == {j \in 1..(n - 1) : Stored(j) /\ doc[j].eq # NoVal}
    IN  IF with_eq = {} THEN NoVal
        ELSE doc[CHOOSE j \in with_eq : \A i \in with_eq : i <= j].eq

\* block j repeats the id of a stored block
Skipped(j) == \E i \in 1..(j - 1) : doc[i].id = doc[j].id /\ Stored(i)

\* C17: while the loop over the array blocks runs, every array is the
\* configuration of the first block stored under its id (a later block of
\* the same id is neither parsed nor stored), and the pending inverter type
\* is the trailing equipment block of the last stored block that has one:
\* the equipment block of a skipped block does not change it.
C17_SeenIdSkipped ==
    pc = "blocks" =>
        /\ Len(arrays) = Cardinality({j \in 1..(bi - 1) : Stored(j)})
        /\ \A k \in 1..Len(arrays) :
               \E j \in 1..(bi - 1) :
                   /\ Stored(j)
                   /\ doc[j].id = arrays[k].array_id
                   /\ arrays[k].strings = doc[j].strings
                   /\ arrays[k].inverter_id # NoVal =>
                          arrays[k].inverter_type =
                              (IF doc[j].own # NoVal THEN doc[j].own
                               ELSE PendingBefore(j))
        /\ pending_inverter_type = PendingBefore(bi)

\* a second block of a stored id, with other strings and a trailing
\* equipment block other than the pending inverter type, has been passed
C17_Witness ==
    /\ pc = "blocks"
    /\ \E j \in 1..(bi - 1) :
           /\ Skipped(j)
           /\ doc[j].modules
           /\ doc[j].eq # NoVal
           /\ doc[j].eq # pending_inverter_type
           /\ pending_inverter_type # NoVal
           /\ \E k \in 1..Len(arrays) :
                  /\ arrays[k].array_id = doc[j].id
                  /\ arrays[k].strings # doc[j].strings

\* the endpoints of one array, in the order of self.expanded_arrays, each
\* as <<inverter, MPPT label given by the expansion>>
EndpointsOf(array_id) ==
    LET own == SelectSeq(expanded_arrays, LAMBDA e : e.array_id = array_id)
    IN  [p \in 1..Len(own) |-> <<own[p].inverter, own[p].created>>]

\* the MPPT labels of an array: those of its header, else 1..mppt_count
LabelsOf(a) ==
    IF a.mppt_ids # <<>> THEN a.mppt_ids
    ELSE IF a.mppt_count # NoVal /\ a.mppt_count >= 1
    THEN [b \in 1..a.mppt_count |-> b]
    ELSE <<>>

\* C18: after parse_arrays_from_text an array with i inverter ids and m
\* MPPT labels has exactly the i x m endpoints of the cross product, all
\* labels of the first inverter before those of the second; with inverter
\* ids and no MPPT information it has one endpoint per inverter, without
\* MPPT; with no inverter id it has no endpoint, whatever its labels (its
\* only endpoints can be those of the legacy assignment, which runs when
\* no array of the document was expanded).
C18_CrossProduct ==
    pc = "parsed" =>
        \A k \in 1..Len(arrays) :
            LET invs == arrays[k].inverter_ids
                labels == LabelsOf(arrays[k])
                got == EndpointsOf(arrays[k].array_id)
            IN  /\ invs = <<>> =>
                       \/ got = <<>>
                       \/ \A k2 \in 1..Len(arrays) : arrays[k2].inverter_ids = <<>>
                /\ (invs # <<>> /\ labels = <<>>) =>
                       got = [a \in 1..Len(invs) |-> <<invs[a], NoVal>>]
                /\ (invs # <<>> /\ labels # <<>>) =>
                       /\ Len(got) = Len(invs) * Len(labels)
                       /\ \A a \in 1..Len(invs) : \A b \in 1..Len(labels) :
                              got[(a - 1) * Len(labels) + b] = <<invs[a], labels[b]>>

\* an array with MPPT labels and no inverter next to an array with two
\* inverters and a per-inverter count of two, expanded to four endpoints
C18_Witness ==
    /\ pc = "parsed"
    /\ \E k \in 1..Len(arrays) :
           arrays[k].inverter_ids = <<>> /\ arrays[k].mppt_ids # <<>>
    /\ \E k \in 1..Len(arrays) :
           /\ Len(arrays[k].inverter_ids) = 2
           /\ arrays[k].mppt_ids = <<>>
           /\ arrays[k].mppt_count = 2
           /\ Len(EndpointsOf(arrays[k].array_id)) = 4

\* the block of the document stored under an array id
BlockOf(array_id) ==
    doc[CHOOSE j \in 1..Len(doc) : Stored(j) /\ doc[j].id = array_id]

\* C19: an array whose block has a "Number of inverters T * MPPT" line has
\* mppt_count = T // max(1, n) for its n inverter ids (c * n <= T < (c+1) * n);
\* the MPPT labels of the header take precedence over mppt_count in the
\* expansion; and with T < n (mppt_count = 0) the array still has one
\* endpoint per inverter.
C19_MpptCountPerInverter ==
    pc = "parsed" =>
        \A k \in 1..Len(arrays) :
            LET a == arrays[k]
                T == BlockOf(a.array_id).mpptT
                n == IF Len(a.inverter_ids) >= 1 THEN Len(a.inverter_ids) ELSE 1
                got == EndpointsOf(a.array_id)
            IN  T # NoVal =>
                    /\ a.mppt_count * n <= T
                    /\ T < (a.mppt_count + 1) * n
                    /\ (a.mppt_ids # <<>> /\ a.inverter_ids # <<>>) =>
                           /\ Len(got) = Len(a.inverter_ids) * Len(a.mppt_ids)
                           /\ \A p \in 1..Len(got) :
                                  \E b \in 1..Len(a.mppt_ids) : got[p][2] = a.mppt_ids[b]
                    /\ (a.mppt_ids = <<>> /\ a.mppt_count = 0) =>
                           got = [i \in 1..Len(a.inverter_ids) |->
                                     <<a.inverter_ids[i], NoVal>>]

\* two inverters with a total of five (a count of two, four endpoints) next
\* to two inverters with a total of one (a count of zero, two endpoints)
C19_Witness ==
    /\ pc = "parsed"
    /\ \E k \in 1..Len(arrays) :
           /\ Len(arrays[k].inverter_ids) = 2
           /\ BlockOf(arrays[k].array_id).mpptT = 5
           /\ arrays[k].mppt_count = 2
           /\ Len(EndpointsOf(arrays[k].array_id)) = 4
    /\ \E k \in 1..Len(arrays) :
           /\ Len(arrays[k].inverter_ids) = 2
           /\ BlockOf(arrays[k].array_id).mpptT = 1
           /\ arrays[k].mppt_count = 0
           /\ Len(EndpointsOf(arrays[k].array_id)) = 2

\* C20: after parse_arrays_from_text, when the session holds exactly one
\* orientation every array whose block names no orientation has that
\* orientation's id, tilt and azimuths, and every array whose block names
\* one keeps its id, tilt and azimuths; when the session holds no or
\* several orientations every array keeps what its block gave.
C20_OrientationBackfill ==
    pc = "parsed" =>
        \A k \in 1..Len(arrays) :
            LET blk == BlockOf(arrays[k].array_id)
                own == parse_array_block(blk, glob.unit_wp)
            IN  IF Cardinality(DOMAIN orientations) = 1 /\ blk.ori = NoVal
                THEN \E o \in DOMAIN orientations :
                         /\ arrays[k].orientation_id = o
                         /\ arrays[k].tilt_az = orientations[o]
                ELSE /\ arrays[k].orientation_id = own.orientation_id
                     /\ arrays[k].tilt_az = own.tilt_az

\* one orientation in the session; an array that had a Tilt/Azimuth of its
\* own and no orientation id now has the orientation's, an array with an
\* orientation id and no Tilt/Azimuth still has none
C20_Witness ==
    /\ pc = "parsed"
    /\ Cardinality(DOMAIN orientations) = 1
    /\ \E k \in 1..Len(arrays) :
           LET blk == BlockOf(arrays[k].array_id)
           IN  /\ blk.ori = NoVal
               /\ blk.tilt_az # <<>>
               /\ arrays[k].orientation_id # NoVal
               /\ arrays[k].tilt_az # parse_array_block(blk, glob.unit_wp).tilt_az
    /\ \E k \in 1..Len(arrays) :
           /\ BlockOf(arrays[k].array_id).ori # NoVal
           /\ arrays[k].tilt_az = <<>>

-----------------------------------------------------------------------------
(* Claims about the inverter type of an array *)

\* C21: after parse_arrays_from_text the inverter type of the array stored
\* from block j is its own when the block states one; else, when the array
\* has an inverter id, the type of the last equipment block trailing a
\* stored block before j (none when no such block exists: the equipment
\* block trailing block j is applied neither to j nor to an earlier array,
\* and holds for every following array until another one replaces it);
\* and none when the array has no inverter id.
C21_PendingTypeCarriedForward ==
    pc = "parsed" =>
        \A k \in 1..Len(arrays) :
            \E j \in 1..Len(doc) :
                /\ Stored(j)
                /\ doc[j].id = arrays[k].array_id
                /\ arrays[k].inverter_type =
                       (IF doc[j].own # NoVal THEN doc[j].own
                        ELSE IF arrays[k].inverter_id # NoVal THEN PendingBefore(j)
                        ELSE NoVal)

\* four arrays: the first is followed by an equipment block and has no
\* type, the second has no inverter id and no type, the third has the type
\* of the first block's equipment and is followed by another equipment
\* block, the fourth has the type of that one
C21_Witness ==
    /\ pc = "parsed"
    /\ Len(arrays) = 4
    /\ Len(doc) = 4
    /\ doc[1].eq # NoVal
    /\ arrays[1].inverter_type = NoVal
    /\ arrays[2].inverter_id = NoVal
    /\ arrays[2].inverter_type = NoVal
    /\ arrays[3].inverter_type = doc[1].eq
    /\ doc[3].eq # NoVal
    /\ doc[3].eq # doc[1].eq
    /\ arrays[4].inverter_type = doc[3].eq

-----------------------------------------------------------------------------
(* Claims about the capacity of an array *)

\* the arrays with the module-derived capacity, where they have one, in the
\* place of the printed one
WithDerivedCapacity(sa) ==
    [p \in 1..Len(sa) |->
        IF sa[p].nominal_stc_kwp_from_module # NoVal
        THEN [sa[p] EXCEPT !.nominal_stc_kwp = sa[p].nominal_stc_kwp_from_module]
        ELSE sa[p]]

\* C22: an array that has a module-derived capacity is counted with that
\* value everywhere downstream: each term of an inverter's capacity is the
\* share of the derived value (also when the array has no printed value),
\* and the dc_kwp of the array's endpoints in to_dict add up to the derived
\* value within half a watt per endpoint.
C22_DerivedCapacityPreferred ==
    pc \in {"monthly", "done"} =>
        /\ \A pr \in DOMAIN capacity_shares :
               ArrayOf(self_arrays, pr[2]).nominal_stc_kwp_from_module # NoVal =>
                   capacity_shares[pr] =
                       capacity_share(expanded_arrays, WithDerivedCapacity(self_arrays),
                                      pr[1], pr[2])
        /\ pc = "done" =>
               \A id \in ArrayIds(self_arrays) :
                   LET keys == {key \in DOMAIN mppt_allocation : key[3] = id}
                       d == ArrayOf(self_arrays, id).nominal_stc_kwp_from_module
                   IN  (d # NoVal /\ keys # {}) =>
                           2 * Abs(SumOver([key \in keys |-> mppt_allocation[key].dc_kwp],
                                           keys) - d)
                               <= Cardinality(keys)

\* the endpoints of an array, over all inverters
CombosOfArray(ea, id) == Cardinality({p \in 1..Len(ea) : ea[p].array_id = id})

\* C23: the term an inverter's capacity gets from an array is the array's
\* capacity times the inverter's endpoints on the array over all endpoints
\* of the array, also when the inverters of the array have different
\* numbers of endpoints on it, and the terms of an array add up to its
\* capacity.
C23_CapacityProportionalToEndpoints ==
    pc \in {"monthly", "done", "crashed"} =>
        \A id \in ArrayIds(self_arrays) :
            LET users == InvertersUsing(expanded_arrays, id)
                C == Get(ArrayOf(self_arrays, id).nominal_stc_kwp, 0)
            IN  /\ \A inv \in users :
                       capacity_shares[<<inv, id>>][1] * CombosOfArray(expanded_arrays, id)
                           = C * CombosOn(expanded_arrays, inv, id)
                                 * capacity_shares[<<inv, id>>][2]
                /\ users # {} =>
                       FracSum([inv \in users |-> capacity_shares[<<inv, id>>]], users)
                           = <<C, 1>>

-----------------------------------------------------------------------------
(* Claims about the sections *)

\* the offsets of the markers of all sections, and of one section
MarkerOffsets(all_text) == {i \in 1..Len(all_text) : all_text[i].k = "marker"}

MarkerOffsetsOf(all_text, name) ==
    {i \in MarkerOffsets(all_text) : all_text[i].v \in section_pattern(name)}

\* the offset of the next marker of any section after offset p, or the end
\* of the text
NextMarkerOffset(all_text, p) ==
    LET later == {q \in MarkerOffsets(all_text) : q > p}
    IN  IF later = {} THEN Len(all_text) + 1
        ELSE CHOOSE q \in later : \A r \in later : q <= r

\* C24: after identify_sections and extract_section_contents the sections
\* and the section contents hold exactly the names that have a marker in
\* the text; a name has one content per marker, in the order of the
\* markers; and the content of a marker is the text from the marker to the
\* next marker of any section (the last to the end of the text), without
\* the white space at its end: the spans follow one another without gap or
\* overlap.
C24_OneSpanPerMarker ==
    rpc = "extracted" =>
        LET all_text == all_text_of(rin)
            present == {SectionNames[n] : n \in
                           {m \in 1..Len(SectionNames) :
                               MarkerOffsetsOf(all_text, SectionNames[m]) # {}}}
        IN  /\ DOMAIN rout.sections = present
            /\ DOMAIN rout.section_contents = present
            /\ \A name \in present :
                   /\ Len(rout.section_contents[name])
                          = Cardinality(MarkerOffsetsOf(all_text, name))
                   /\ \A p \in MarkerOffsetsOf(all_text, name) :
                          LET k == 1 + Cardinality({q \in MarkerOffsetsOf(all_text, name) :
                                                       q < p})
                          IN  /\ rout.sections[name][k] = p
                              /\ rout.section_contents[name][k] =
                                     Strip(SubSeq(all_text, p,
                                                  NextMarkerOffset(all_text, p) - 1))

\* "Project summary", "PV Array Characteristics", "System summary" and a
\* word: two contents under Project Summary, the first ends where PV Array
\* Characteristics starts, and no Array Losses
C24_Witness ==
    /\ rpc = "extracted"
    /\ rin = <<Marker(1), Marker(4), Marker(2), WORD>>
    /\ rout.section_contents["Project Summary"]
           = << <<Marker(1)>>, <<Marker(2), WORD>> >>
    /\ rout.section_contents["PV Array Characteristics"] = << <<Marker(4)>> >>
    /\ "Array Losses" \notin DOMAIN rout.section_contents

-----------------------------------------------------------------------------
(* Claims about the equipment lines *)

\* C25: under the header "PV module Inverter", a Manufacturer, Model or Unit
\* Nom. Power line with one column gives the module's value and no
\* inverter's value; a line with two columns gives the module the first and
\* the inverter the second.
C25_OneOrTwoColumns ==
    (rpc = "equipment" /\ rin.header) =>
        \A label \in EquipmentLabels :
            LET i == first_line_with(rin.lines, label)
            IN  /\ (i # 0 /\ Len(rin.lines[i].cols) = 1) =>
                       /\ label \in DOMAIN rout.module_info
                       /\ rout.module_info[label] = rin.lines[i].cols[1]
                       /\ label \notin DOMAIN rout.inverter_info
                /\ (i # 0 /\ Len(rin.lines[i].cols) = 2) =>
                       /\ label \in DOMAIN rout.module_info
                       /\ rout.module_info[label] = rin.lines[i].cols[1]
                       /\ label \in DOMAIN rout.inverter_info
                       /\ rout.inverter_info[label] = rin.lines[i].cols[2]

-----------------------------------------------------------------------------
(* Claims about repeated calls *)

\* C26: parse_inverter_range applied to the comma-joined names it returned
\* returns the same names in the same order.
C26_InverterRangeIdempotent ==
    [][(rpc = "inverter_range" /\ rpc' = "inverter_range_again") => rout' = rout]_vars

\* "INV02-05,7,8" gave six names, and the six names joined gave them again
C26_Witness ==
    /\ rpc = "inverter_range_again"
    /\ rin = joined_names(<<2, 3, 4, 5, 7, 8>>)
    /\ rout = <<2, 3, 4, 5, 7, 8>>

\* C27: a second run of the pipeline on the same parser object and the
\* same text ends with the endpoints, MPPT labels and associations of the
\* first run.
C27_RerunOnSameParserSameEndpoints ==
    (run = 2 /\ pc = "done") =>
        /\ expanded_arrays = first_output.expanded_arrays
        /\ output.associations = first_output.output.associations

-----------------------------------------------------------------------------
(* Claims about the endpoints of the output *)

\* C28: after parse_arrays_from_text every array has at least one endpoint
\* in expanded_arrays, also an array whose header names no inverter.
C28_EveryArrayHasAnEndpoint ==
    pc = "parsed" =>
        \A k \in 1..Len(arrays) : EndpointsOf(arrays[k].array_id) # <<>>

\* C28 as amended: after parse_arrays_from_text every array that has an
\* inverter id in its list has at least one endpoint in expanded_arrays,
\* and an array without any inverter id (outside interactive mode: an array
\* whose header names no inverter) has none: no fallback gives it one.
C28_ArraysWithInverterHaveEndpoints ==
    pc = "parsed" =>
        \A k \in 1..Len(arrays) :
            /\ arrays[k].inverter_ids # <<>> => EndpointsOf(arrays[k].array_id) # <<>>
            /\ (arrays[k].inverter_ids = <<>> /\ arrays[k].inverter_id = NoVal)
                   => EndpointsOf(arrays[k].array_id) = <<>>

\* an array on two inverters with a per-inverter count of zero has two
\* endpoints, an array whose header names no inverter has none
C28_Witness ==
    /\ pc = "parsed"
    /\ \E k \in 1..Len(arrays) :
           /\ Len(arrays[k].inverter_ids) = 2
           /\ arrays[k].mppt_count = 0
           /\ Len(EndpointsOf(arrays[k].array_id)) = 2
    /\ \E k \in 1..Len(arrays) :
           /\ arrays[k].inverter_ids = <<>>
           /\ arrays[k].inverter_id = NoVal
           /\ BlockOf(arrays[k].array_id).header = HNone
           /\ EndpointsOf(arrays[k].array_id) = <<>>

\* the entries of associations that belong to an array
EntriesOf(id) == {pr \in DOMAIN associations : associations[pr].array_id = id}

\* C29 as stated: in the output of to_dict after a full run, associations
\* has exactly one entry per endpoint of expanded_arrays, every entry
\* carries strings, modules and dc_kwp, and for every array the strings of
\* its entries add up to the array's strings and their modules to
\* strings x modules_in_series (a missing number counts as 0, as to_dict
\* counts it).
C29_AssociationsCoverEveryArray ==
    pc = "done" =>
        /\ Cardinality(DOMAIN associations) = Len(expanded_arrays)
        /\ \A p \in 1..Len(expanded_arrays) :
               LET e == expanded_arrays[p]
               IN  /\ <<e.inverter, e.mppt>> \in DOMAIN associations
                   /\ associations[<<e.inverter, e.mppt>>].array_id = e.array_id
        /\ \A pr \in DOMAIN associations :
               {"strings", "modules", "dc_kwp"} \subseteq DOMAIN associations[pr]
        /\ \A id \in ArrayIds(self_arrays) :
               LET S == Get(ArrayOf(self_arrays, id).strings, 0)
                   M == Get(ArrayOf(self_arrays, id).modules_in_series, 0)
               IN  /\ SumOver([pr \in EntriesOf(id) |-> associations[pr].strings],
                              EntriesOf(id)) = S
                   /\ SumOver([pr \in EntriesOf(id) |-> associations[pr].modules],
                              EntriesOf(id)) = S * M

\* C29 as amended: the same, with the two sums stated of every array that
\* has at least one endpoint; an array without endpoints has no entry.
C29_AssociationsCoverArraysWithEndpoints ==
    pc = "done" =>
        /\ Cardinality(DOMAIN associations) = Len(expanded_arrays)
        /\ \A p \in 1..Len(expanded_arrays) :
               LET e == expanded_arrays[p]
               IN  /\ <<e.inverter, e.mppt>> \in DOMAIN associations
                   /\ associations[<<e.inverter, e.mppt>>].array_id = e.array_id
        /\ \A pr \in DOMAIN associations :
               {"strings", "modules", "dc_kwp"} \subseteq DOMAIN associations[pr]
        /\ \A id \in ArrayIds(self_arrays) :
               LET S == Get(ArrayOf(self_arrays, id).strings, 0)
                   M == Get(ArrayOf(self_arrays, id).modules_in_series, 0)
               IN  IF PairsOf(expanded_arrays, id) # {}
                   THEN /\ SumOver([pr \in EntriesOf(id) |-> associations[pr].strings],
                                   EntriesOf(id)) = S
                        /\ SumOver([pr \in EntriesOf(id) |-> associations[pr].modules],
                                   EntriesOf(id)) = S * M
                   ELSE EntriesOf(id) = {}

\* two arrays whose headers gave the same label on one inverter, one of
\* them with an odd number of strings over two endpoints
C29_Witness ==
    /\ pc = "done"
    /\ \E j1, j2 \in 1..Len(doc) :
           /\ j1 # j2 /\ doc[j1].id # doc[j2].id
           /\ doc[j1].header = doc[j2].header
           /\ EntriesOf(doc[j1].id) # {} /\ EntriesOf(doc[j2].id) # {}
    /\ \E id \in ArrayIds(self_arrays) :
           /\ Cardinality(EntriesOf(id)) >= 2
           /\ ArrayOf(self_arrays, id).strings % 2 = 1
           /\ ArrayOf(self_arrays, id).modules_in_series > 1

\* C30: a mention of 'Array #n' without a Modules line does not mark the id
\* as seen: while the loop runs, the seen ids are those of the passed blocks
\* that have a Modules line, and when it has ended, every id that has a
\* block with a Modules line is stored once, with the configuration of the
\* earliest such block, whatever mentions of the id came before it.
C30_StrayMentionNotSeen ==
    /\ pc = "blocks" =>
           seen_ids = {doc[j].id : j \in {i \in 1..(bi - 1) : doc[i].modules}}
    /\ pc = "parsed" =>
           \A j \in 1..Len(doc) :
               Stored(j) =>
                   /\ Cardinality({k \in 1..Len(arrays) :
                                       arrays[k].array_id = doc[j].id}) = 1
                   /\ \E k \in 1..Len(arrays) :
                          /\ arrays[k].array_id = doc[j].id
                          /\ arrays[k].strings = doc[j].strings
                          /\ arrays[k].modules_in_series = doc[j].series

\* a mention without a Modules line, then the block of the same id with
\* one, then another block of that id with other strings: the array holds
\* the strings of the middle one
C30_Witness ==
    /\ pc = "parsed"
    /\ \E j1, j2, j3 \in 1..Len(doc) :
           /\ j1 < j2 /\ j2 < j3
           /\ doc[j1].id = doc[j2].id /\ doc[j3].id = doc[j2].id
           /\ ~doc[j1].modules /\ doc[j2].modules /\ doc[j3].modules
           /\ doc[j3].strings # doc[j2].strings
           /\ \E k \in 1..Len(arrays) :
                  /\ arrays[k].array_id = doc[j2].id
                  /\ arrays[k].strings = doc[j2].strings

====
